---------------------------- MODULE Spec2Model ----------------------------
(***************************************************************************)
(* A model of the USB Insight Hub display agent (src/hub_agent.py):        *)
(* HubAgent.run() and the methods it calls, as a state machine of the loop *)
(* thread, together with the threads and the environment that act on the   *)
(* same object: the SIGINT/SIGTERM handler (stop), the IOKit watcher       *)
(* callback (_on_usb_event) and the hub being plugged and unplugged.       *)
(***************************************************************************)
EXTENDS Integers, Sequences, FiniteSets, TLC

None == "None"

(***************************************************************************)
(* Bounds of the model.                                                    *)
(***************************************************************************)
\* The longest list comports() returns in a scan.
MaxPorts == 2

\* The longest display label _build_display is called with.
MaxLabel == 16

\* The number of successive calls of _scan_channels a sequence of scans has.
MaxScans == 3

\* The number of serial handles a run of the serial monitor opens.
MaxHandles == 4

\* The longest packet, other than the SYNC packet, the frame encoding is
\* applied to.
MaxPacket == 3

(***************************************************************************)
(* Program constants.                                                      *)
(***************************************************************************)
CHANNELS == <<"CH1", "CH2", "CH3">>

MAX_NAME_LEN == 14

Channel == {CHANNELS[i] : i \in 1..Len(CHANNELS)}

(***************************************************************************)
(* Strings the code cuts or compares by character are sequences of        *)
(* one-character strings.                                                  *)
(***************************************************************************)
Digits == <<"0", "1", "2", "3", "4", "5", "6", "7", "8", "9">>

IsDigit(c) == \E i \in 1..Len(Digits) : Digits[i] = c

DigitVal(c) == (CHOOSE i \in 1..Len(Digits) : Digits[i] = c) - 1

\* s.startswith(p)
StartsWith(s, p) == Len(s) >= Len(p) /\ SubSeq(s, 1, Len(p)) = p

\* "." in s
HasDot(s) == \E i \in 1..Len(s) : s[i] = "."

\* s.split(".")[0]: the part of s before its first ".", all of s if it has none.
FirstSegment(s) ==
    IF HasDot(s)
    THEN SubSeq(s, 1, (CHOOSE i \in 1..Len(s) :
                          s[i] = "." /\ \A j \in 1..(i - 1) : s[j] # ".") - 1)
    ELSE s

\* s.rsplit(".", 1)[0]: the part of s before its last ".".
BeforeLastDot(s) ==
    SubSeq(s, 1, (CHOOSE i \in 1..Len(s) :
                     s[i] = "." /\ \A j \in (i + 1)..Len(s) : s[j] # ".") - 1)

RECURSIVE DigitsValue(_)
DigitsValue(s) ==
    IF s = <<>> THEN 0
    ELSE 10 * DigitsValue(SubSeq(s, 1, Len(s) - 1)) + DigitVal(s[Len(s)])

AllDigits(s) == s # <<>> /\ \A i \in 1..Len(s) : IsDigit(s[i])

\* int(s) over the characters a USB location holds: decimal digits with an
\* optional sign; ok = FALSE stands for ValueError.
ParseInt(s) ==
    IF AllDigits(s) THEN [ok |-> TRUE, val |-> DigitsValue(s)]
    ELSE IF s # <<>> /\ s[1] = "-" /\ AllDigits(Tail(s))
    THEN [ok |-> TRUE, val |-> 0 - DigitsValue(Tail(s))]
    ELSE IF s # <<>> /\ s[1] = "+" /\ AllDigits(Tail(s))
    THEN [ok |-> TRUE, val |-> DigitsValue(Tail(s))]
    ELSE [ok |-> FALSE, val |-> 0]

\* A faulty truncate that returns its argument whole.
truncate_whole(s) == s

\* truncate(s, maxlen=MAX_NAME_LEN)
truncate(s) == IF Len(s) > MAX_NAME_LEN THEN SubSeq(s, 1, MAX_NAME_LEN) ELSE s

\* A faulty port_to_channel that tests device_location.startswith(hub_location)
\* without the ".".
port_to_channel_prefix(device_location, hub_location) ==
    IF device_location = <<>> \/ hub_location = <<>>
    THEN None
    ELSE IF ~StartsWith(device_location, hub_location)
    THEN None
    ELSE LET remainder == SubSeq(device_location, Len(hub_location) + 2,
                                 Len(device_location))
             port == ParseInt(FirstSegment(remainder))
         IN  IF ~port.ok THEN None
             ELSE IF 1 <= port.val /\ port.val <= 3 THEN CHANNELS[port.val]
             ELSE None

\* port_to_channel(device_location, hub_location); a location that is absent
\* (None) or empty is <<>>: the code tests both with "not".
port_to_channel(device_location, hub_location) ==
    IF device_location = <<>> \/ hub_location = <<>>
    THEN None
    ELSE IF ~StartsWith(device_location, hub_location \o <<".">>)
    THEN None
    ELSE LET remainder == SubSeq(device_location, Len(hub_location) + 2,
                                 Len(device_location))
             port == ParseInt(FirstSegment(remainder))
         IN  IF ~port.ok THEN None
             ELSE IF 1 <= port.val /\ port.val <= 3 THEN CHANNELS[port.val]
             ELSE None

(***************************************************************************)
(* The bus: locations, the registry and what comports() can return.        *)
(***************************************************************************)
\* The hub controller enumerates at port 4 of its own hub: at "20-3.3.4", so
\* the hub is "20-3.3".
ControllerLocation == <<"2", "0", "-", "3", ".", "3", ".", "4">>

HubLocation == <<"2", "0", "-", "3", ".", "3">>

Loc(port) == HubLocation \o <<".", port>>

\* main() passes "pending" for the port and the location of a hub it did not
\* find.
Pending == <<"p", "e", "n", "d", "i", "n", "g">>

\* self.devices: serial_number -> {name, hub_name, type}.
devices ==
    [sn \in {"A", "B"} |->
        IF sn = "A"
        THEN [name |-> <<"a", "l", "p", "h", "a">>, hub_name |-> <<"a">>, type |-> "esp32"]
        ELSE [name |-> <<"b", "e", "t", "a">>, hub_name |-> <<"b">>, type |-> "generic"]]

Registered == DOMAIN devices

\* What a device answers to the SYNC frame of probe_bootloader: exc names
\* the call of lines 161-166 that raised ("Serial", "write", "read", "close";
\* None when none did), bytes is what s.read(100) returned.
NoAnswer == [exc |-> None, bytes |-> <<>>]

BootAnswer == [exc |-> None, bytes |-> <<192, 1, 2, 3, 4>>]

\* One entry of comports(): serial_number is None when absent, location is <<>>
\* when absent, device is the path (None when the path is not available), resp
\* is what the device would answer to a bootloader probe now.
PortPool ==
    [serial_number : {"A"}, location : {Loc("1")},
     device : {"tty"}, resp : {NoAnswer, BootAnswer}]
    \cup [serial_number : {"A"}, location : {Loc("1")},
          device : {None}, resp : {NoAnswer}]
    \cup [serial_number : {"B"}, location : {Loc("1"), Loc("2")},
          device : {"tty"}, resp : {BootAnswer}]
    \cup [serial_number : {"U"}, location : {Loc("1")},
          device : {"tty"}, resp : {NoAnswer}]

RECURSIVE SeqsUpTo(_, _)
SeqsUpTo(S, n) ==
    IF n = 0 THEN {<<>>}
    ELSE LET shorter == SeqsUpTo(S, n - 1)
         IN  shorter \cup {Append(s, x) : s \in {t \in shorter : Len(t) = n - 1}, x \in S}

\* The results of comports() the model draws a scan from.
Scans == SeqsUpTo(PortPool, MaxPorts)

(***************************************************************************)
(* probe_bootloader and the frame of a channel.                            *)
(***************************************************************************)
\* Lines 147-149: pkt, the SYNC command: struct.pack("<BBHI", 0x00, 0x08,
\* len(sync_data), 0) followed by sync_data, 07 07 12 20 and 32 bytes 0x55.
sync_data == <<7, 7, 18, 32>> \o [i \in 1..32 |-> 85]

SyncPacket == <<0, 8, Len(sync_data) % 256, Len(sync_data) \div 256, 0, 0, 0, 0>> \o sync_data

\* A faulty loop of lines 151-157 that copies the byte 0xDB unescaped.
RECURSIVE slip_escape_no_db(_)
slip_escape_no_db(pkt) ==
    IF pkt = <<>> THEN <<>>
    ELSE (IF Head(pkt) = 192 THEN <<219, 220>> ELSE <<Head(pkt)>>)
         \o slip_escape_no_db(Tail(pkt))

\* Lines 151-157: the loop over the bytes of pkt.
RECURSIVE slip_escape(_)
slip_escape(pkt) ==
    IF pkt = <<>> THEN <<>>
    ELSE (IF Head(pkt) = 192 THEN <<219, 220>>
          ELSE IF Head(pkt) = 219 THEN <<219, 221>>
          ELSE <<Head(pkt)>>)
         \o slip_escape(Tail(pkt))

\* Lines 150-158: frame.
slip_encode(pkt) == <<192>> \o slip_escape(pkt) \o <<192>>

\* A faulty line 167 that tests the length of the response only.
probe_bootloader_any_bytes(resp) ==
    IF resp.exc # None THEN FALSE
    ELSE Len(resp.bytes) > 4

\* probe_bootloader(port_path): the classification of the response.
probe_bootloader(resp) ==
    IF resp.exc # None THEN FALSE
    ELSE (\E i \in 1..Len(resp.bytes) : resp.bytes[i] = 192) /\ Len(resp.bytes) > 4

\* A faulty _probe_state that sends the bootloader probe to a device of any
\* type.
_probe_state_untyped(port_info, device_type) ==
    IF port_info.device = None THEN "sleeping"
    ELSE IF probe_bootloader(port_info.resp) THEN "bootloader"
    ELSE "running"

\* HubAgent._probe_state(port_info, device_type)
_probe_state(port_info, device_type) ==
    IF port_info.device = None THEN "sleeping"
    ELSE IF device_type = "esp32" /\ probe_bootloader(port_info.resp) THEN "bootloader"
    ELSE "running"

\* Lines 271-273 of _probe_state: whether the call runs probe_bootloader
\* against port_info.device.
_probe_state_probes(port_info, device_type) ==
    port_info.device # None /\ device_type = "esp32"

\* color_map.get(state, default)
color_map(state, default) ==
    CASE state = "running" -> "GREEN"
      [] state = "bootloader" -> "ORANGE"
      [] state = "sleeping" -> "CYAN"
      [] state = "off" -> "RED"
      [] state = "disconnected" -> "RED"
      [] OTHER -> default

\* HubAgent._build_display(hub_name, state)
_build_display(hub_name, state) ==
    [Dev1_name |->
        [k \in (IF state # "running" THEN {"T1", "T2"} ELSE {"T1"}) |->
            IF k = "T1"
            THEN [txt |-> truncate(hub_name), color |-> color_map(state, "GREEN")]
            ELSE [txt |-> <<state>>, color |-> color_map(state, "DARKGREY")]],
     numDev |-> "10", usbType |-> "2"]

\* HubAgent._empty_display()
_empty_display ==
    [Dev1_name |-> [k \in {"T1"} |-> [txt |-> <<"-", "-", "-">>, color |-> "DARKGREY"]],
     numDev |-> "10", usbType |-> "2"]

\* A channel with no entry in _channel_display.
NoDisplay == [absent |-> TRUE]

(***************************************************************************)
(* _scan_channels.                                                         *)
(***************************************************************************)
\* A channel with no entry in channel_devices.
NoPort == [absent |-> TRUE]

\* A faulty loop over comports() in which the first device found on a
\* channel keeps it.
RECURSIVE channel_devices_first(_, _)
channel_devices_first(scan, hub_loc) ==
    IF scan = <<>> THEN [ch \in Channel |-> NoPort]
    ELSE LET before == channel_devices_first(SubSeq(scan, 1, Len(scan) - 1), hub_loc)
             p == scan[Len(scan)]
         IN  IF p.serial_number = None \/ p.serial_number \notin Registered
             THEN before
             ELSE LET channel == port_to_channel(p.location, hub_loc)
                  IN  IF channel # None /\ before[channel] = NoPort
                      THEN [before EXCEPT ![channel] = p]
                      ELSE before

\* Lines 287-293: channel_devices after the loop over comports(). A later
\* entry of the scan overwrites an earlier one on the same channel.
RECURSIVE channel_devices(_, _)
channel_devices(scan, hub_loc) ==
    IF scan = <<>> THEN [ch \in Channel |-> NoPort]
    ELSE LET before == channel_devices(SubSeq(scan, 1, Len(scan) - 1), hub_loc)
             p == scan[Len(scan)]
         IN  IF p.serial_number = None \/ p.serial_number \notin Registered
             THEN before
             ELSE LET channel == port_to_channel(p.location, hub_loc)
                  IN  IF channel # None THEN [before EXCEPT ![channel] = p]
                      ELSE before

\* Lines 341-349: the entry status() stores for the port p of a channel.
StatusEntry(p) ==
    LET registered == p.serial_number \in Registered
    IN  [serial_number |-> p.serial_number,
         device |-> p.device,
         name |-> IF registered THEN devices[p.serial_number].name
                  ELSE p.description,
         hub_name |-> IF registered THEN devices[p.serial_number].hub_name
                      ELSE truncate(IF p.description = <<>> THEN <<"?">>
                                    ELSE p.description),
         registered |-> registered]

\* A faulty status() that skips the devices the registry does not hold, as
\* _scan_channels does.
RECURSIVE status_registered_only(_, _)
status_registered_only(scan, hub_loc) ==
    IF scan = <<>> THEN [ch \in Channel |-> NoPort]
    ELSE LET before == status_registered_only(SubSeq(scan, 1, Len(scan) - 1), hub_loc)
             p == scan[Len(scan)]
         IN  IF p.serial_number = None \/ p.serial_number \notin Registered
             THEN before
             ELSE LET channel == port_to_channel(p.location, hub_loc)
                  IN  IF channel # None THEN [before EXCEPT ![channel] = StatusEntry(p)]
                      ELSE before

\* Lines 337-349 of status(): channel_devices after the loop over comports().
RECURSIVE status(_, _)
status(scan, hub_loc) ==
    IF scan = <<>> THEN [ch \in Channel |-> NoPort]
    ELSE LET before == status(SubSeq(scan, 1, Len(scan) - 1), hub_loc)
             p == scan[Len(scan)]
         IN  IF p.serial_number = None
             THEN before
             ELSE LET channel == port_to_channel(p.location, hub_loc)
                  IN  IF channel # None THEN [before EXCEPT ![channel] = StatusEntry(p)]
                      ELSE before

\* A faulty line 301 that probes the occupant in every scan.
NeedsProbe_always(sn, prev_sn) == TRUE

\* A faulty line 301 that probes arrivals only: a channel whose occupant is
\* replaced by another device keeps the state of the device that left.
NeedsProbe_arrival(sn, prev_sn) == prev_sn = None

\* Line 301: whether the occupant sn of a channel is probed, prev_sn being
\* self._channel_serials.get(ch).
NeedsProbe(sn, prev_sn) == sn # prev_sn

\* A faulty loop body whose else branch (lines 309-312) renders the
\* placeholder but leaves the cached mode of the device that left.
ScanChannel_keeps_mode(p, prev_sn, prev_state) ==
    IF p # NoPort
    THEN LET sn == p.serial_number
             dev == devices[sn]
             probe == sn # prev_sn
             state == IF probe THEN _probe_state(p, dev.type)
                      ELSE IF prev_state = None THEN "running" ELSE prev_state
         IN  [serial |-> sn,
              state |-> IF probe THEN state ELSE prev_state,
              display |-> _build_display(dev.hub_name, state),
              probed |-> probe]
    ELSE [serial |-> None, state |-> prev_state, display |-> _empty_display,
          probed |-> FALSE]

\* A faulty loop body whose else branch (lines 309-312) renders the
\* placeholder but pops neither the cached occupant nor its mode.
ScanChannel_keeps_cache(p, prev_sn, prev_state) ==
    IF p # NoPort
    THEN LET sn == p.serial_number
             dev == devices[sn]
             probe == sn # prev_sn
             state == IF probe THEN _probe_state(p, dev.type)
                      ELSE IF prev_state = None THEN "running" ELSE prev_state
         IN  [serial |-> sn,
              state |-> IF probe THEN state ELSE prev_state,
              display |-> _build_display(dev.hub_name, state),
              probed |-> probe]
    ELSE [serial |-> prev_sn, state |-> prev_state, display |-> _empty_display,
          probed |-> FALSE]

\* Lines 296-312 for one channel, p being channel_devices[ch]: the new cached
\* occupant and mode, the frame and whether _probe_state was called.
ScanChannel(p, prev_sn, prev_state) ==
    IF p # NoPort
    THEN LET sn == p.serial_number
             dev == devices[sn]
             probe == NeedsProbe(sn, prev_sn)
             state == IF probe THEN _probe_state(p, dev.type)
                      ELSE IF prev_state = None THEN "running" ELSE prev_state
         IN  [serial |-> sn,
              state |-> IF probe THEN state ELSE prev_state,
              display |-> _build_display(dev.hub_name, state),
              probed |-> probe]
    ELSE [serial |-> None, state |-> None, display |-> _empty_display,
          probed |-> FALSE]

\* HubAgent._scan_channels(): all three channels.
_scan_channels(scan, hub_loc, serials, states) ==
    LET found == channel_devices(scan, hub_loc)
    IN  [ch \in Channel |-> ScanChannel(found[ch], serials[ch], states[ch])]

\* Lines 295-314 of _scan_channels, found being channel_devices: what a call
\* that observes found does with the caches serials and states.
ScanObserved(found, serials, states) ==
    [ch \in Channel |-> ScanChannel(found[ch], serials[ch], states[ch])]

(***************************************************************************)
(* The hub's replies and _send, _push_channel.                             *)
(***************************************************************************)
\* The reply lines the hub can send, after decode and strip; "" is the empty
\* line of a read timeout.
ReplyLines ==
    {"", "garbage", "{\"status\":\"ok\"}", "{\"status\":\"error\"}", "{}", "[1]", "0"}

\* What the serial port does with one command: io says whether write, flush
\* and readline went through or raised OSError; line is what readline returned.
Replies == [io : {"ok"}, line : ReplyLines] \cup [io : {"oserror"}, line : {""}]

\* json.loads(line) for the lines above: t is the Python type of the value
\* ("error" for JSONDecodeError), truthy its truth value, status the value of
\* its "status" key (None when it has none).
json_loads(line) ==
    CASE line = "{\"status\":\"ok\"}" -> [t |-> "dict", truthy |-> TRUE, status |-> "ok"]
      [] line = "{\"status\":\"error\"}" -> [t |-> "dict", truthy |-> TRUE, status |-> "error"]
      [] line = "{}" -> [t |-> "dict", truthy |-> FALSE, status |-> None]
      [] line = "[1]" -> [t |-> "list", truthy |-> TRUE, status |-> None]
      [] line = "0" -> [t |-> "int", truthy |-> FALSE, status |-> None]
      [] OTHER -> [t |-> "error", truthy |-> FALSE, status |-> None]

\* The value None as a result of _send.
NoResult == [t |-> "NoneType", truthy |-> FALSE, status |-> None]

\* A faulty _send whose every except clause sets self._hub_lost.
MarksLost_any(exception) == TRUE

\* Lines 228-232: whether the handler of the exception sets self._hub_lost.
MarksLost(exception) == exception = "OSError"

\* HubAgent._send(msg): the result, the new _hub_lost and whether the payload was
\* handed to the serial port.
_send(ser, reply, lost) ==
    IF ser = None
    THEN [result |-> NoResult, hub_lost |-> lost, wrote |-> FALSE]
    ELSE IF reply.io = "oserror"
    THEN [result |-> NoResult, hub_lost |-> (lost \/ MarksLost("OSError")),
          wrote |-> TRUE]
    ELSE IF reply.line = ""
    THEN [result |-> NoResult, hub_lost |-> lost, wrote |-> TRUE]
    ELSE IF json_loads(reply.line).t = "error"
    THEN [result |-> NoResult, hub_lost |-> (lost \/ MarksLost("JSONDecodeError")),
          wrote |-> TRUE]
    ELSE [result |-> json_loads(reply.line), hub_lost |-> lost, wrote |-> TRUE]

\* Line 259, ok = result and result.get("status") == "ok": raised says that
\* result.get raised AttributeError (a true value that is no dict), ok is the
\* truth value of what _push_channel returns.
PushOk(result) ==
    IF ~result.truthy THEN [raised |-> FALSE, ok |-> FALSE]
    ELSE IF result.t # "dict" THEN [raised |-> TRUE, ok |-> FALSE]
    ELSE [raised |-> FALSE, ok |-> result.status = "ok"]

\* HubAgent._push_channel(channel, display, log)
_push_channel(ser, reply, lost) ==
    LET sent == _send(ser, reply, lost)
        ret == PushOk(sent.result)
    IN  [raised |-> ret.raised, ok |-> ret.ok, hub_lost |-> sent.hub_lost,
         wrote |-> sent.wrote]

(***************************************************************************)
(* Hub discovery and the connection.                                       *)
(***************************************************************************)
\* What comports() holds for the hub controller: present says whether an
\* entry matches the product name or the VID/PID, location is its location.
HubPorts ==
    {[present |-> TRUE, device |-> "hubtty", location |-> ControllerLocation],
     [present |-> TRUE, device |-> "hubtty", location |-> <<"2", "0", "-", "3">>],
     [present |-> TRUE, device |-> "hubtty", location |-> <<>>],
     [present |-> FALSE, device |-> None, location |-> <<>>]}

\* find_insight_hub(): (serial_port, hub_location), an absent one as None or <<>>.
find_insight_hub(hp) ==
    IF hp.present
    THEN [port |-> hp.device,
          location |-> IF hp.location # <<>> /\ HasDot(hp.location)
                       THEN BeforeLastDot(hp.location) ELSE <<>>]
    ELSE [port |-> None, location |-> <<>>]

\* A faulty _close_hub that leaves the serial port open.
_close_hub_keeps(ser) == ser

\* HubAgent._close_hub(): the new self._ser.
_close_hub(ser) == None

\* HubAgent._open_hub(): the new self._ser, opened says whether serial.Serial
\* returned a port (TRUE) or raised SerialException (FALSE).
_open_hub(ser, opened) == IF opened THEN "open" ELSE ser

\* The number of open serial handles to the hub after _close_hub: ser is
\* self._ser before the call and closed is self._ser after it; close() is
\* called on the handle when there was one and the field is reset.
handles_after_close(n, ser, closed) == IF ser # None /\ closed = None THEN n - 1 ELSE n

\* The number of open serial handles after serial.Serial() in _open_hub:
\* one more when it returned a port.
handles_after_open(n, opened) == IF opened THEN n + 1 ELSE n

\* HubAgent._stop_usb_watcher(): the new self._usb_watcher.
_stop_usb_watcher(w) == None

(***************************************************************************)
(* The state.  The fields of the HubAgent and the locals of run() and      *)
(* refresh(), then the environment, then history variables that record     *)
(* what happened (they are written, never read, by the actions).           *)
(***************************************************************************)
VARIABLES
    once,              \* the argument of run()
    pc,                \* where the loop thread is in run()
    ctx,               \* which call of refresh() is running or ran last
    idx,               \* the channel refresh() pushes next, 1..3
    log_changes_only,  \* the argument of refresh()
    triggered,         \* the local of run()
    desired,           \* the local of refresh(): the result of _scan_channels()
    _ser,
    _hub_lost,
    running,
    _usb_event,
    _usb_watcher,
    hub_location,
    _channel_serials,
    _channel_states,
    _channel_display,
    hub_up,            \* environment: hub discovery and serial open succeed
    exc,               \* history: an exception escaped refresh()
    stop_requested,    \* history: stop() ran after the handlers were installed
    stop_at_wait,      \* history: stop() had run when the last wait returned
    recovering,        \* history: marked lost, and no _reconnect succeeded since
    lost_cause,        \* history: what marked it lost: "open" or "push"
    recovered_from,    \* history: the lost_cause the last _reconnect ended
    last_push,         \* history: the last _push_channel call of this refresh
    probed,            \* history: the channels the last scan probed
    observed,          \* history: channel_devices of the last scan
    last_occ,          \* history: the occupants the last scan recorded
    wrote,             \* history: the channels this refresh wrote a command for
    tick_attached,     \* history: the hub was attached all through this tick
    exit_info,         \* history: how run() ended
    open_handles,      \* environment: the open serial handles to the hub
    signals,           \* history: the watcher callbacks since the wait began
    call,              \* a call of a module-level function, outside run()
    watcher,           \* the USBWatcher of iokit_usb.py, its thread and its stop()
    monitor            \* the SerialMonitor of serial_monitor.py and its two threads

vars ==
    <<once, pc, ctx, idx, log_changes_only, triggered, desired, _ser, _hub_lost,
      running, _usb_event, _usb_watcher, hub_location, _channel_serials,
      _channel_states, _channel_display, hub_up, exc, stop_requested,
      stop_at_wait, recovering, lost_cause, recovered_from, last_push, probed, observed,
      last_occ, wrote, tick_attached, exit_info, open_handles, signals, call,
      watcher, monitor>>

agent == <<_ser, _hub_lost, hub_location, _channel_serials, _channel_states,
           _channel_display>>

history == <<exc, stop_requested, stop_at_wait, recovering, lost_cause,
             recovered_from, last_push, probed, observed, last_occ, wrote,
             tick_attached, exit_info, call>>

Empty == [ch \in Channel |-> None]

NoDisplays == [ch \in Channel |-> NoDisplay]

NoPush == [channel |-> None]

\* No scan made in this call of refresh yet.
NoObserved == [ch \in Channel |-> NoPort]

\* run() calls the functions itself: no separate call is in progress.
NoCall == [fn |-> None]

NoExit == [path |-> None]

\* self._ser is None: no handle.
NoHandle == 0

\* SerialMonitor.__init__ (lines 121-128) and what the model keeps with it:
\* k is where the main thread is in run(), _run_interactive() and
\* _handle_key(), r where the reader thread is in _read_loop(); a serial
\* handle is a number, open the set of handles that serial.Serial returned
\* and nothing closed, next the handle the next serial.Serial returns; h[t]
\* is the handle thread t got from serial.Serial in _open and has not yet
\* stored, c[t] whether thread t found self._ser set in _close; overwritten
\* records that an assignment to self._ser replaced an open handle.
MonitorIdle ==
    [_ser |-> NoHandle, running |-> FALSE, timestamps |-> FALSE,
     k |-> "run_open", r |-> "unstarted", open |-> {}, next |-> 1,
     h |-> [t \in {"k", "r"} |-> NoHandle],
     c |-> [t \in {"k", "r"} |-> FALSE],
     overwritten |-> FALSE]

\* USBWatcher.__init__ (lines 105-108) and what the model keeps with it: t
\* is where the thread running _run() is, s where the caller is in stop(),
\* rl the local of stop(), port what became of the notification port,
\* stop_flag whether the run loop holds a stop request, armed whether the
\* notifications are subscribed; late_event and destroyed_in_use record an
\* on_event call after stop() returned and a port destroyed under a living
\* thread.
WatcherIdle ==
    [_thread |-> None, _run_loop |-> None, _notify_port |-> None,
     t |-> "unstarted", s |-> "idle", rl |-> None, port |-> "none",
     stop_flag |-> FALSE, armed |-> FALSE, late_event |-> FALSE,
     destroyed_in_use |-> FALSE]

\* HubAgent.__init__, as main() calls it.
Init ==
    /\ once \in BOOLEAN
    /\ hub_up \in BOOLEAN
    /\ pc = "open"
    /\ ctx = None
    /\ idx = 1
    /\ log_changes_only = TRUE
    /\ triggered = FALSE
    /\ desired = NoDisplays
    /\ _ser = None
    /\ _hub_lost = FALSE
    /\ running = FALSE
    /\ _usb_event = FALSE
    /\ _usb_watcher = None
    /\ hub_location \in (IF hub_up THEN {HubLocation} ELSE {HubLocation, Pending})
    /\ _channel_serials = Empty
    /\ _channel_states = Empty
    /\ _channel_display = NoDisplays
    /\ exc = FALSE
    /\ stop_requested = FALSE
    /\ stop_at_wait = FALSE
    /\ recovering = FALSE
    /\ lost_cause = None
    /\ recovered_from = None
    /\ last_push = NoPush
    /\ probed = {}
    /\ observed = NoObserved
    /\ last_occ = Empty
    /\ wrote = {}
    /\ tick_attached = hub_up
    /\ exit_info = NoExit
    /\ open_handles = 0
    /\ signals = "none"
    /\ call = NoCall
    /\ watcher = WatcherIdle
    /\ monitor = MonitorIdle

\* refresh(log_changes_only) is entered from the call named by c.
EnterRefresh(c, lco) ==
    /\ pc' = "scan"
    /\ ctx' = c
    /\ log_changes_only' = lco

(***************************************************************************)
(* run(), lines 405-426: startup.                                          *)
(***************************************************************************)
\* Lines 405-409: if not self._open_hub()
RunOpenHub ==
    /\ pc = "open"
    /\ _ser' = _open_hub(_ser, hub_up)
    /\ IF hub_up
       THEN /\ pc' = "install"
            /\ UNCHANGED <<_hub_lost, recovering, lost_cause, exit_info>>
       ELSE IF once
       THEN /\ pc' = "done"        \* sys.exit(1)
            /\ exit_info' = [path |-> "sys.exit", had_ser |-> FALSE,
                             had_watcher |-> FALSE]
            /\ UNCHANGED <<_hub_lost, recovering, lost_cause>>
       ELSE /\ pc' = "install"
            /\ _hub_lost' = TRUE
            /\ recovering' = TRUE
            /\ lost_cause' = "open"
            /\ UNCHANGED exit_info
    /\ UNCHANGED <<once, ctx, idx, log_changes_only, triggered, desired, running,
                   _usb_event, _usb_watcher, hub_location, _channel_serials,
                   _channel_states, _channel_display, hub_up, exc, stop_requested,
                   stop_at_wait, recovered_from, last_push, probed, observed, last_occ, wrote,
                   tick_attached>>
    /\ UNCHANGED call
    /\ UNCHANGED signals
    /\ open_handles' = handles_after_open(open_handles, hub_up)
    /\ UNCHANGED watcher
    /\ UNCHANGED monitor

\* Lines 411-417: the handlers are installed; once: self.refresh(False).
RunInstallHandlers ==
    /\ pc = "install"
    /\ IF once
       THEN EnterRefresh("once", FALSE)
       ELSE pc' = "set_running" /\ UNCHANGED <<ctx, log_changes_only>>
    /\ UNCHANGED <<once, idx, triggered, desired, running, _usb_event,
                   _usb_watcher, hub_up>>
    /\ UNCHANGED agent
    /\ UNCHANGED history
    /\ UNCHANGED signals
    /\ UNCHANGED open_handles
    /\ UNCHANGED watcher
    /\ UNCHANGED monitor

\* Line 419: self.running = True
RunSetRunning ==
    /\ pc = "set_running"
    /\ running' = TRUE
    /\ pc' = "start_watcher"
    /\ UNCHANGED <<once, ctx, idx, log_changes_only, triggered, desired,
                   _usb_event, _usb_watcher, hub_up>>
    /\ UNCHANGED agent
    /\ UNCHANGED history
    /\ UNCHANGED signals
    /\ UNCHANGED open_handles
    /\ UNCHANGED watcher
    /\ UNCHANGED monitor

\* Lines 420-426: _start_usb_watcher() (no watcher where iokit_usb cannot be
\* imported), then the first refresh unless the hub is lost.
RunStartWatcher ==
    /\ pc = "start_watcher"
    /\ \E has_iokit \in BOOLEAN :
          _usb_watcher' = IF has_iokit THEN "started" ELSE None
    /\ IF ~_hub_lost
       THEN EnterRefresh("first", FALSE)
       ELSE pc' = "loop" /\ UNCHANGED <<ctx, log_changes_only>>
    /\ UNCHANGED <<once, idx, triggered, desired, running, _usb_event, hub_up>>
    /\ UNCHANGED agent
    /\ UNCHANGED history
    /\ UNCHANGED signals
    /\ UNCHANGED open_handles
    /\ UNCHANGED watcher
    /\ UNCHANGED monitor

(***************************************************************************)
(* run(), lines 428-449: the loop.                                         *)
(***************************************************************************)
\* Line 428: while self.running
LoopTest ==
    /\ pc = "loop"
    /\ pc' = IF running THEN "wait" ELSE "finally"
    /\ ctx' = None
    /\ last_push' = NoPush
    /\ probed' = {}
    /\ observed' = NoObserved
    /\ wrote' = {}
    /\ recovered_from' = None
    /\ UNCHANGED <<once, idx, log_changes_only, triggered, desired, running,
                   _usb_event, _usb_watcher, hub_up>>
    /\ UNCHANGED agent
    /\ UNCHANGED <<exc, stop_requested, stop_at_wait, recovering, lost_cause, last_occ,
                   tick_attached, exit_info>>
    /\ UNCHANGED call
    /\ signals' = "none"
    /\ UNCHANGED open_handles
    /\ UNCHANGED watcher
    /\ UNCHANGED monitor

\* A faulty wait() that returns False although the flag is set.
event_wait_timeout(flag) == FALSE

\* threading.Event.wait(timeout): True at once when the flag is set, False
\* at the timeout.
event_wait(flag) == flag

\* Line 430: triggered = self._usb_event.wait(timeout=self.interval)
Wait ==
    /\ pc = "wait"
    /\ triggered' = event_wait(_usb_event)
    /\ pc' = "clear"
    /\ stop_at_wait' = stop_requested
    /\ tick_attached' = hub_up
    /\ UNCHANGED <<once, ctx, idx, log_changes_only, desired, running, _usb_event,
                   _usb_watcher, hub_up>>
    /\ UNCHANGED agent
    /\ UNCHANGED <<exc, stop_requested, recovering, lost_cause, recovered_from,
                   last_push, probed, observed, last_occ,
                   wrote, exit_info>>
    /\ UNCHANGED call
    /\ UNCHANGED signals
    /\ UNCHANGED open_handles
    /\ UNCHANGED watcher
    /\ UNCHANGED monitor

\* A faulty clear() that leaves the flag as it is.
event_clear_keeps(flag) == flag

\* threading.Event.clear(): the new value of the flag.
event_clear(flag) == FALSE

\* The steps of a tick from the wait to the end of the settle delay and the
\* clear that follows it.
TickHead == {"wait", "clear", "check", "settle", "drain"}

\* One more callback counted: none, one, many.
Another(n) == IF n = "none" THEN "one" ELSE "many"

\* Line 431: self._usb_event.clear()
Clear ==
    /\ pc = "clear"
    /\ _usb_event' = event_clear(_usb_event)
    /\ pc' = "check"
    /\ UNCHANGED <<once, ctx, idx, log_changes_only, triggered, desired, running,
                   _usb_watcher, hub_up>>
    /\ UNCHANGED agent
    /\ UNCHANGED history
    /\ UNCHANGED signals
    /\ UNCHANGED open_handles
    /\ UNCHANGED watcher
    /\ UNCHANGED monitor

\* Lines 433-449: the branch the tick takes.
Dispatch ==
    /\ pc = "check"
    /\ IF ~running
       THEN pc' = "finally" /\ UNCHANGED <<ctx, log_changes_only>>
       ELSE IF _hub_lost
       THEN pc' = "reconnect" /\ UNCHANGED <<ctx, log_changes_only>>
       ELSE IF triggered
       THEN pc' = "settle" /\ UNCHANGED <<ctx, log_changes_only>>
       ELSE EnterRefresh("cycle", ~triggered)
    /\ UNCHANGED <<once, idx, triggered, desired, running, _usb_event,
                   _usb_watcher, hub_up>>
    /\ UNCHANGED agent
    /\ UNCHANGED history
    /\ UNCHANGED signals
    /\ UNCHANGED open_handles
    /\ UNCHANGED watcher
    /\ UNCHANGED monitor

\* Line 445: time.sleep(0.5)
Settle ==
    /\ pc = "settle"
    /\ pc' = "drain"
    /\ UNCHANGED <<once, ctx, idx, log_changes_only, triggered, desired, running,
                   _usb_event, _usb_watcher, hub_up>>
    /\ UNCHANGED agent
    /\ UNCHANGED history
    /\ UNCHANGED signals
    /\ UNCHANGED open_handles
    /\ UNCHANGED watcher
    /\ UNCHANGED monitor

\* Lines 447-449: self._usb_event.clear(), then self.refresh(not triggered)
Drain ==
    /\ pc = "drain"
    /\ _usb_event' = event_clear(_usb_event)
    /\ EnterRefresh("cycle", ~triggered)
    /\ UNCHANGED <<once, idx, triggered, desired, running, _usb_watcher, hub_up>>
    /\ UNCHANGED agent
    /\ UNCHANGED history
    /\ UNCHANGED signals
    /\ UNCHANGED open_handles
    /\ UNCHANGED watcher
    /\ UNCHANGED monitor

\* HubAgent._reconnect(): the fields it leaves and its return value (ok), hp
\* being the hub's entry in comports() and opened whether serial.Serial opens
\* the port.
_reconnect(ser, hp, opened, cur_location) ==
    LET found == find_insight_hub(hp)
        closed == _close_hub(ser)
        cleared == [hub_lost |-> FALSE, display |-> NoDisplays, serials |-> Empty,
                    states |-> Empty]
    IN  IF found.port = None \/ found.location = <<>>
        THEN [ok |-> FALSE, ser |-> closed, hub_location |-> cur_location,
              cache |-> cleared]
        ELSE [ok |-> opened, ser |-> _open_hub(closed, opened),
              hub_location |-> found.location, cache |-> cleared]

\* Lines 437-440: if self._reconnect(): self.refresh(False); continue. With
\* the hub up, discovery and open succeed; otherwise one of them fails.
Reconnect ==
    /\ pc = "reconnect"
    /\ \E hp \in HubPorts, opened \in BOOLEAN :
          /\ hub_up => (hp.location = ControllerLocation /\ opened)
          /\ ~hub_up => (hp.location # ControllerLocation \/ ~opened)
          /\ \E r \in {_reconnect(_ser, hp, opened, hub_location)} :
                 /\ _ser' = r.ser
                 /\ hub_location' = r.hub_location
                 /\ _hub_lost' = r.cache.hub_lost
                 /\ _channel_display' = r.cache.display
                 /\ _channel_serials' = r.cache.serials
                 /\ _channel_states' = r.cache.states
                 /\ open_handles' =
                       handles_after_open(
                           handles_after_close(open_handles, _ser, _close_hub(_ser)),
                           r.ok)
                 /\ IF r.ok
                    THEN /\ EnterRefresh("reconnect", FALSE)
                         /\ recovering' = FALSE
                         /\ lost_cause' = None
                         /\ recovered_from' = lost_cause
                    ELSE /\ pc' = "loop"
                         /\ UNCHANGED <<ctx, log_changes_only, recovering,
                                        lost_cause, recovered_from>>
    /\ UNCHANGED <<once, idx, triggered, desired, running, _usb_event,
                   _usb_watcher, hub_up>>
    /\ UNCHANGED <<exc, stop_requested, stop_at_wait, last_push, probed, observed, last_occ,
                   wrote, tick_attached, exit_info>>
    /\ UNCHANGED call
    /\ UNCHANGED signals
    /\ UNCHANGED watcher
    /\ UNCHANGED monitor

(***************************************************************************)
(* refresh(), lines 322-328.                                               *)
(***************************************************************************)
\* Line 322: desired = self._scan_channels()
ScanChannels ==
    /\ pc = "scan"
    /\ \E scan \in Scans :
          \E r \in {_scan_channels(scan, hub_location, _channel_serials,
                                   _channel_states)} :
              /\ _channel_serials' = [ch \in Channel |-> r[ch].serial]
              /\ _channel_states' = [ch \in Channel |-> r[ch].state]
              /\ desired' = [ch \in Channel |-> r[ch].display]
              /\ probed' = {ch \in Channel : r[ch].probed}
              /\ observed' = channel_devices(scan, hub_location)
              /\ last_occ' = [ch \in Channel |-> r[ch].serial]
    /\ pc' = "push"
    /\ idx' = 1
    /\ wrote' = {}
    /\ last_push' = NoPush
    /\ UNCHANGED <<once, ctx, log_changes_only, triggered, running, _usb_event,
                   _usb_watcher, hub_up>>
    /\ UNCHANGED <<_ser, _hub_lost, hub_location, _channel_display>>
    /\ UNCHANGED <<exc, stop_requested, stop_at_wait, recovering, lost_cause, recovered_from,
                   tick_attached,
                   exit_info>>
    /\ UNCHANGED call
    /\ signals' = "none"
    /\ UNCHANGED open_handles
    /\ UNCHANGED watcher
    /\ UNCHANGED monitor

\* No reply: nothing was written.
NoReply == [io |-> "none", line |-> ""]

\* Lines 325-328 for the channel CHANNELS[idx]: one _push_channel call. An
\* AttributeError raised in it leaves refresh() and the try block of run().
\* When refresh() returns its locals are gone: they get their initial values.
PushChannel ==
    /\ pc = "push"
    /\ \E reply \in (IF _ser = None THEN {NoReply} ELSE Replies) :
          \E r \in {_push_channel(_ser, reply, _hub_lost)} :
          LET ch == CHANNELS[idx]
              display == desired[ch]
          IN  /\ _hub_lost' = r.hub_lost
              /\ recovering' = (recovering \/ r.hub_lost)
              /\ lost_cause' = IF r.hub_lost /\ ~_hub_lost THEN "push" ELSE lost_cause
              /\ wrote' = IF r.wrote THEN wrote \cup {ch} ELSE wrote
              /\ last_push' = [channel |-> ch, reply |-> reply, raised |-> r.raised,
                               ok |-> r.ok, wrote |-> r.wrote,
                               lost_before |-> _hub_lost,
                               lost_after |-> r.hub_lost]
              /\ IF r.raised
                 THEN /\ pc' = "finally"
                      /\ exc' = TRUE
                      /\ UNCHANGED <<idx, desired, _channel_display,
                                     log_changes_only>>
                 ELSE /\ _channel_display' = [_channel_display EXCEPT ![ch] = display]
                      /\ exc' = exc
                      /\ IF idx < Len(CHANNELS)
                         THEN /\ idx' = idx + 1
                              /\ UNCHANGED <<pc, desired, log_changes_only>>
                         ELSE /\ idx' = 1
                              /\ desired' = NoDisplays
                              /\ log_changes_only' = TRUE
                              /\ pc' = IF ctx = "once" THEN "finally" ELSE "loop"
    /\ UNCHANGED <<once, ctx, triggered, running, _usb_event, _usb_watcher,
                   hub_up>>
    /\ UNCHANGED <<_ser, hub_location, _channel_serials, _channel_states>>
    /\ UNCHANGED <<stop_requested, stop_at_wait, recovered_from, probed, observed, last_occ,
                   tick_attached, exit_info>>
    /\ UNCHANGED call
    /\ UNCHANGED signals
    /\ UNCHANGED open_handles
    /\ UNCHANGED watcher
    /\ UNCHANGED monitor

\* Lines 450-452: finally: self._stop_usb_watcher(); self._close_hub()
Finally ==
    /\ pc = "finally"
    /\ _usb_watcher' = _stop_usb_watcher(_usb_watcher)
    /\ _ser' = _close_hub(_ser)
    /\ pc' = "done"
    /\ exit_info' = [path |-> IF exc THEN "exception"
                              ELSE IF once THEN "once" ELSE "stop",
                     had_ser |-> _ser # None,
                     had_watcher |-> _usb_watcher # None]
    /\ last_push' = NoPush
    /\ probed' = {}
    /\ observed' = NoObserved
    /\ wrote' = {}
    /\ UNCHANGED <<once, ctx, idx, log_changes_only, triggered, desired, running,
                   _usb_event, hub_up>>
    /\ UNCHANGED <<_hub_lost, hub_location, _channel_serials, _channel_states,
                   _channel_display>>
    /\ UNCHANGED <<exc, stop_requested, stop_at_wait, recovering, lost_cause, recovered_from,
                   last_occ,
                   tick_attached>>
    /\ UNCHANGED call
    /\ UNCHANGED signals
    /\ open_handles' = handles_after_close(open_handles, _ser, _close_hub(_ser))
    /\ UNCHANGED watcher
    /\ UNCHANGED monitor

(***************************************************************************)
(* The other threads of control and the environment.                       *)
(***************************************************************************)
\* HubAgent.stop(), run by the SIGINT/SIGTERM handler between two steps of
\* the loop thread, once line 411 installed it and while run() is running.
Stop ==
    /\ pc \notin {"open", "install", "done"}
    /\ running' = FALSE
    /\ stop_requested' = TRUE
    /\ UNCHANGED <<once, pc, ctx, idx, log_changes_only, triggered, desired,
                   _usb_event, _usb_watcher, hub_up>>
    /\ UNCHANGED agent
    /\ UNCHANGED <<exc, stop_at_wait, recovering, lost_cause, recovered_from,
                   last_push, probed, observed, last_occ,
                   wrote, tick_attached, exit_info>>
    /\ UNCHANGED call
    /\ UNCHANGED signals
    /\ UNCHANGED open_handles
    /\ UNCHANGED watcher
    /\ UNCHANGED monitor

\* A faulty callback that also marks the hub connection lost.
_on_usb_event_marks_lost(f) == [f EXCEPT !._usb_event = TRUE, !._hub_lost = TRUE]

\* HubAgent._on_usb_event(), lines 399-401, on the fields f of the agent that
\* the watcher thread shares with the loop: self._usb_event.set().
_on_usb_event(f) == [f EXCEPT !._usb_event = TRUE]

\* USBWatcher._on_added / _on_removed call on_event on the watcher's thread,
\* at any point of the loop thread, while the watcher is started.
OnUsbEvent ==
    /\ _usb_watcher = "started"
    /\ \E f \in {_on_usb_event([_usb_event |-> _usb_event, _hub_lost |-> _hub_lost,
                                 running |-> running])} :
          /\ _usb_event' = f._usb_event
          /\ _hub_lost' = f._hub_lost
          /\ running' = f.running
    /\ UNCHANGED <<once, pc, ctx, idx, log_changes_only, triggered, desired,
                   _usb_watcher, hub_up>>
    /\ UNCHANGED <<_ser, hub_location, _channel_serials, _channel_states,
                   _channel_display>>
    /\ UNCHANGED history
    /\ signals' = IF pc \in TickHead THEN Another(signals) ELSE signals
    /\ UNCHANGED open_handles
    /\ UNCHANGED watcher
    /\ UNCHANGED monitor

\* The hub is attached (and can be opened).
HubPlug ==
    /\ ~hub_up
    /\ hub_up' = TRUE
    /\ UNCHANGED <<once, pc, ctx, idx, log_changes_only, triggered, desired,
                   running, _usb_event, _usb_watcher>>
    /\ UNCHANGED agent
    /\ UNCHANGED history
    /\ UNCHANGED signals
    /\ UNCHANGED open_handles
    /\ UNCHANGED watcher
    /\ UNCHANGED monitor

\* The hub is detached (or can no longer be opened).
HubUnplug ==
    /\ hub_up
    /\ hub_up' = FALSE
    /\ tick_attached' = FALSE
    /\ UNCHANGED <<once, pc, ctx, idx, log_changes_only, triggered, desired,
                   running, _usb_event, _usb_watcher>>
    /\ UNCHANGED agent
    /\ UNCHANGED <<exc, stop_requested, stop_at_wait, recovering, lost_cause, recovered_from,
                   last_push, probed, observed,
                   last_occ, wrote, exit_info>>
    /\ UNCHANGED call
    /\ UNCHANGED signals
    /\ UNCHANGED open_handles
    /\ UNCHANGED watcher
    /\ UNCHANGED monitor

\* The steps of the thread that runs run().
LoopThread ==
    \/ RunOpenHub
    \/ RunInstallHandlers
    \/ RunSetRunning
    \/ RunStartWatcher
    \/ LoopTest
    \/ Wait
    \/ Clear
    \/ Dispatch
    \/ Settle
    \/ Drain
    \/ Reconnect
    \/ ScanChannels
    \/ PushChannel
    \/ Finally

Next ==
    \/ LoopThread
    \/ Stop
    \/ OnUsbEvent
    \/ HubPlug
    \/ HubUnplug

Spec == Init /\ [][Next]_vars

\* The interpreter keeps running the loop thread: every wait ends at its
\* timeout and every serial call returns or raises within its timeout.
FairSpec == Spec /\ WF_vars(LoopThread)

(***************************************************************************)
(* The module-level functions called on their own: port_to_channel and     *)
(* _build_display applied to arguments drawn from the sets below.          *)
(***************************************************************************)
program ==
    <<once, pc, ctx, idx, log_changes_only, triggered, desired, _ser, _hub_lost,
      running, _usb_event, _usb_watcher, hub_location, _channel_serials,
      _channel_states, _channel_display, hub_up, exc, stop_requested,
      stop_at_wait, recovering, lost_cause, recovered_from, last_push, probed,
      observed, last_occ, wrote, tick_attached, exit_info, open_handles,
      signals>>

\* hub_location arguments: absent, "20-3.3", "20-3", "20-3.3.4", "pending".
HubLocations ==
    {<<>>, HubLocation, <<"2", "0", "-", "3">>, ControllerLocation, Pending}

\* device_location arguments: absent, the hub itself, its ports 0..4, 10 and
\* 01, deeper paths, other branches, locations that share the text of the hub
\* location without the ".", and segments that are not numbers.
DeviceLocations ==
    {<<>>, HubLocation}
    \cup {Loc(d) : d \in {"0", "1", "2", "3", "4", "x", "-"}}
    \cup {HubLocation \o t :
            t \in {<<".">>, <<".", "1", "0">>, <<".", "0", "1">>,
                   <<".", "+", "2">>, <<".", "-", "1">>,
                   <<".", "1", ".", "2">>, <<".", "3", ".", "4", ".", "1">>,
                   <<".", ".", "1">>, <<"1", ".", "1">>, <<"1", "2">>, <<"2">>}}
    \cup {<<"2", "0", "-", "3", ".", "4", ".", "1">>,
          <<"2", "1", "-", "3", ".", "3", ".", "1">>}

\* A display label of n characters, no two neighbours equal.
Label(n) == [i \in 1..n |-> Digits[(i % 10) + 1]]

Labels == {Label(n) : n \in 0..MaxLabel}

\* state arguments: the modes of color_map and a string it does not hold.
Modes == {"running", "bootloader", "sleeping", "off", "disconnected", "unknown"}

\* The responses of a probed port: each call of lines 161-166 raising (no
\* bytes read unless it is close), and replies of 0, 1, 4 and 5 bytes with
\* and without the byte 0xC0 (192).
ProbeReplies ==
    {<<>>, <<192>>, <<192, 1, 2, 3>>, <<192, 1, 2, 3, 4>>, <<1, 2, 3, 4, 5>>,
     <<1, 2, 3, 4, 192>>}

ProbeResponses ==
    [exc : {None, "close"}, bytes : ProbeReplies]
    \cup [exc : {"Serial", "write", "read"}, bytes : {<<>>}]

\* The comports() entries of registered devices a channel can hold: with and
\* without a device path.
ChannelPorts ==
    [serial_number : Registered, location : {Loc("1")}, device : {"tty", None},
     resp : {NoAnswer, BootAnswer, [exc |-> "read", bytes |-> <<>>]}]

\* The cached occupant and mode of the channel before the scan.
CachedOccupants == {None} \cup Registered

CachedModes == {None, "running", "bootloader", "sleeping"}

\* comports() entries for a scan: registered devices on the three channels
\* and on another branch, an unregistered device and devices with no serial
\* number on channels.
ObservedPool ==
    [serial_number : {"A"}, device : {"tty"}, resp : {NoAnswer},
     location : {Loc("1"), Loc("3"), <<"2", "0", "-", "3", ".", "4", ".", "1">>}]
    \cup [serial_number : {"B"}, device : {"tty"}, resp : {NoAnswer},
          location : {Loc("1"), Loc("2")}]
    \cup [serial_number : {"U"}, device : {"tty"}, resp : {NoAnswer},
          location : {Loc("1")}]
    \cup [serial_number : {None}, device : {"tty"}, resp : {NoAnswer},
          location : {Loc("1"), Loc("2")}]

\* comports() entries for status(): as above, with the description of the
\* port (<<>> when it is None or empty, short, or longer than a label).
StatusPool ==
    [serial_number : {"A"}, device : {"tty"}, description : {<<"x">>},
     location : {Loc("1"), <<"2", "0", "-", "3", ".", "4", ".", "1">>}]
    \cup [serial_number : {"B"}, device : {"tty"}, description : {<<"x">>},
          location : {Loc("1")}]
    \cup [serial_number : {"U"}, device : {"tty"}, location : {Loc("1")},
          description : {<<>>, <<"u">>, Label(MaxLabel)}]
    \cup [serial_number : {None}, device : {"tty"}, description : {<<"x">>},
          location : {Loc("1")}]

\* No device has left the channel and is awaited.
NoLeft == [sn |-> None, state |-> None]

\* pkt arguments of the frame encoding: the packets over the two reserved
\* bytes, the second bytes of the escape sequences and an ordinary byte,
\* and the SYNC packet.
Packets == SeqsUpTo({192, 219, 220, 221, 85}, MaxPacket) \cup {SyncPacket}

\* The agent as constructed, before run(): no connection, empty caches.
AtRest ==
    /\ once = FALSE
    /\ pc = "open"
    /\ ctx = None
    /\ idx = 1
    /\ log_changes_only = FALSE
    /\ triggered = FALSE
    /\ desired = NoDisplays
    /\ _ser = None
    /\ _hub_lost = FALSE
    /\ running = FALSE
    /\ _usb_event = FALSE
    /\ _usb_watcher = None
    /\ hub_location = HubLocation
    /\ _channel_serials = Empty
    /\ _channel_states = Empty
    /\ _channel_display = NoDisplays
    /\ hub_up = TRUE
    /\ exc = FALSE
    /\ stop_requested = FALSE
    /\ stop_at_wait = FALSE
    /\ recovering = FALSE
    /\ lost_cause = None
    /\ recovered_from = None
    /\ last_push = NoPush
    /\ probed = {}
    /\ observed = NoObserved
    /\ last_occ = Empty
    /\ wrote = {}
    /\ tick_attached = TRUE
    /\ exit_info = NoExit
    /\ open_handles = 0
    /\ signals = "none"

CallInit ==
    /\ AtRest
    /\ watcher = WatcherIdle
    /\ monitor = MonitorIdle
    /\ \/ call \in [fn : {"port_to_channel"}, device_location : DeviceLocations,
                     hub_location : HubLocations, done : {FALSE}, result : {None}]
       \/ call \in [fn : {"_build_display"}, hub_name : Labels, state : Modes,
                     done : {FALSE}, result : {NoDisplay}]
       \/ call \in [fn : {"channel_devices"}, scan : SeqsUpTo(ObservedPool, MaxPorts),
                     hub_location : {HubLocation}, done : {FALSE},
                     result : {NoObserved}]
       \/ call \in [fn : {"status"}, scan : SeqsUpTo(StatusPool, MaxPorts),
                     hub_location : {HubLocation}, done : {FALSE},
                     result : {NoObserved}]
       \/ call = [fn |-> "_scan_channels", n |-> 0,
                  left |-> [ch \in Channel |-> NoLeft],
                  returned |-> [ch \in Channel |-> NoLeft]]
       \/ call \in [fn : {"probe_bootloader"}, resp : ProbeResponses,
                     done : {FALSE}, result : {FALSE}]
       \/ call \in [fn : {"slip_encode"}, pkt : Packets, done : {FALSE},
                     result : {<<>>}]
       \/ call \in {c \in [fn : {"ScanChannel"}, p : ChannelPorts,
                           prev_sn : CachedOccupants, prev_state : CachedModes,
                           done : {FALSE}, result : {None},
                           bootloader_probed : {FALSE}] :
                        (c.prev_sn = None) <=> (c.prev_state = None)}

\* port_to_channel(device_location, hub_location) returns.
ApplyPortToChannel ==
    /\ call.fn = "port_to_channel"
    /\ ~call.done
    /\ call' = [call EXCEPT !.done = TRUE,
                            !.result = port_to_channel(call.device_location,
                                                       call.hub_location)]
    /\ UNCHANGED program
    /\ UNCHANGED watcher
    /\ UNCHANGED monitor

\* _build_display(hub_name, state) returns.
ApplyBuildDisplay ==
    /\ call.fn = "_build_display"
    /\ ~call.done
    /\ call' = [call EXCEPT !.done = TRUE,
                            !.result = _build_display(call.hub_name, call.state)]
    /\ UNCHANGED program
    /\ UNCHANGED watcher
    /\ UNCHANGED monitor

\* Lines 296-308 for a channel that comports() shows occupied by call.p; the
\* call of _probe_state at line 303 runs probe_bootloader or not.
ApplyScanChannel ==
    /\ call.fn = "ScanChannel"
    /\ ~call.done
    /\ \E r \in {ScanChannel(call.p, call.prev_sn, call.prev_state)} :
          call' = [call EXCEPT
                     !.done = TRUE,
                     !.result = r,
                     !.bootloader_probed =
                        r.probed /\ _probe_state_probes(call.p, devices[call.p.serial_number].type)]
    /\ UNCHANGED program
    /\ UNCHANGED watcher
    /\ UNCHANGED monitor

\* Lines 286-293 of _scan_channels: the loop over comports().
ApplyChannelDevices ==
    /\ call.fn = "channel_devices"
    /\ ~call.done
    /\ call' = [call EXCEPT !.done = TRUE,
                            !.result = channel_devices(call.scan, call.hub_location)]
    /\ UNCHANGED program
    /\ UNCHANGED watcher
    /\ UNCHANGED monitor

\* Lines 330-359: status() reads comports() and prints; it assigns no
\* attribute of the agent and does not call _send.
ApplyStatus ==
    /\ call.fn = "status"
    /\ ~call.done
    /\ call' = [call EXCEPT !.done = TRUE,
                            !.result = status(call.scan, call.hub_location)]
    /\ UNCHANGED program
    /\ UNCHANGED watcher
    /\ UNCHANGED monitor

\* One more call of _scan_channels() on the caches the calls before it left.
\* call.left[ch] is the occupant, with the mode cached for it, that a call
\* found gone from ch and that has not been seen on ch since;
\* call.returned[ch] is that record in the call that finds the device on ch
\* again.
ApplyScanChannels ==
    /\ call.fn = "_scan_channels"
    /\ call.n < MaxScans
    /\ \E scan \in Scans :
          \E r \in {_scan_channels(scan, hub_location, _channel_serials,
                                   _channel_states)} :
          \E found \in {channel_devices(scan, hub_location)} :
              /\ _channel_serials' = [ch \in Channel |-> r[ch].serial]
              /\ _channel_states' = [ch \in Channel |-> r[ch].state]
              /\ probed' = {ch \in Channel : r[ch].probed}
              /\ observed' = found
              /\ call' =
                    [call EXCEPT
                       !.n = call.n + 1,
                       !.left =
                          [ch \in Channel |->
                             IF found[ch] = NoPort
                             THEN IF _channel_serials[ch] # None
                                  THEN [sn |-> _channel_serials[ch],
                                        state |-> _channel_states[ch]]
                                  ELSE call.left[ch]
                             ELSE IF found[ch].serial_number = call.left[ch].sn
                                  THEN NoLeft
                                  ELSE call.left[ch]],
                       !.returned =
                          [ch \in Channel |->
                             IF found[ch] # NoPort
                                /\ found[ch].serial_number = call.left[ch].sn
                             THEN call.left[ch]
                             ELSE NoLeft]]
    /\ UNCHANGED <<once, pc, ctx, idx, log_changes_only, triggered, desired,
                   _ser, _hub_lost, running, _usb_event, _usb_watcher,
                   hub_location, _channel_display, hub_up, exc, stop_requested,
                   stop_at_wait, recovering, lost_cause, recovered_from,
                   last_push, last_occ, wrote, tick_attached, exit_info,
                   open_handles, signals>>
    /\ UNCHANGED watcher
    /\ UNCHANGED monitor

\* Lines 160-169: probe_bootloader(port_path) returns, call.resp being what
\* the calls of the try block do.
ApplyProbeBootloader ==
    /\ call.fn = "probe_bootloader"
    /\ ~call.done
    /\ call' = [call EXCEPT !.done = TRUE,
                            !.result = probe_bootloader(call.resp)]
    /\ UNCHANGED program
    /\ UNCHANGED watcher
    /\ UNCHANGED monitor

\* Lines 150-158: the frame of pkt is built.
ApplySlipEncode ==
    /\ call.fn = "slip_encode"
    /\ ~call.done
    /\ call' = [call EXCEPT !.done = TRUE, !.result = slip_encode(call.pkt)]
    /\ UNCHANGED program
    /\ UNCHANGED watcher
    /\ UNCHANGED monitor

CallNext ==
    \/ ApplyPortToChannel
    \/ ApplyBuildDisplay
    \/ ApplyScanChannel
    \/ ApplyChannelDevices
    \/ ApplyStatus
    \/ ApplyScanChannels
    \/ ApplyProbeBootloader
    \/ ApplySlipEncode

CallSpec == CallInit /\ [][CallNext]_vars

(***************************************************************************)
(* USBWatcher of iokit_usb.py: the caller's start() and stop() and the     *)
(* thread that runs _run(), one step per statement that reads or writes a  *)
(* field of the watcher or calls into CoreFoundation or IOKit.             *)
(***************************************************************************)
WatcherInit ==
    /\ AtRest
    /\ call = NoCall
    /\ watcher = WatcherIdle
    /\ monitor = MonitorIdle

\* The thread of _run() has been started and has not returned from _run().
ThreadAlive == watcher.t \notin {"unstarted", "exited"}

\* Lines 154-159: start().
start ==
    /\ watcher.s = "idle"
    /\ watcher._thread = None
    /\ watcher' = [watcher EXCEPT !._thread = "thread", !.t = "create_port"]
    /\ UNCHANGED <<program, call>>
    /\ UNCHANGED monitor

\* Lines 124-125 of _run: self._notify_port = IONotificationPortCreate(...)
RunCreatePort ==
    /\ watcher.t = "create_port"
    /\ watcher' = [watcher EXCEPT !._notify_port = "port", !.port = "live",
                                  !.t = "get_loop"]
    /\ UNCHANGED <<program, call>>
    /\ UNCHANGED monitor

\* Lines 127-128 of _run: self._run_loop = CFRunLoopGetCurrent()
RunGetLoop ==
    /\ watcher.t = "get_loop"
    /\ watcher' = [watcher EXCEPT !._run_loop = "loop", !.t = "subscribe"]
    /\ UNCHANGED <<program, call>>
    /\ UNCHANGED monitor

\* Lines 130-146 of _run: the two subscriptions on self._notify_port.
RunSubscribe ==
    /\ watcher.t = "subscribe"
    /\ watcher' = [watcher EXCEPT
                     !.armed = TRUE,
                     !.destroyed_in_use = @ \/ watcher._notify_port = None,
                     !.t = "test"]
    /\ UNCHANGED <<program, call>>
    /\ UNCHANGED monitor

\* Line 151 of _run: while self._run_loop is not None
RunTest ==
    /\ watcher.t = "test"
    /\ watcher' = [watcher EXCEPT
                     !.t = IF watcher._run_loop # None THEN "enter" ELSE "exited"]
    /\ UNCHANGED <<program, call>>
    /\ UNCHANGED monitor

\* Line 152 of _run: CFRunLoopRunInMode is entered.
RunEnter ==
    /\ watcher.t = "enter"
    /\ watcher' = [watcher EXCEPT !.t = "run_in_mode"]
    /\ UNCHANGED <<program, call>>
    /\ UNCHANGED monitor

\* Line 152 of _run: CFRunLoopRunInMode returns, stopped or after its 60
\* seconds.
RunReturn ==
    /\ watcher.t = "run_in_mode"
    /\ watcher' = [watcher EXCEPT !.stop_flag = FALSE, !.t = "test"]
    /\ UNCHANGED <<program, call>>
    /\ UNCHANGED monitor

\* Lines 114-120: the run loop delivers a notification of the live port;
\* _on_added or _on_removed calls on_event, the agent's _on_usb_event.
OnEvent ==
    /\ watcher.t = "run_in_mode"
    /\ watcher.armed
    /\ watcher.port = "live"
    /\ \E f \in {_on_usb_event([_usb_event |-> _usb_event, _hub_lost |-> _hub_lost,
                                 running |-> running])} :
          /\ _usb_event' = f._usb_event
          /\ _hub_lost' = f._hub_lost
          /\ running' = f.running
    /\ watcher' = [watcher EXCEPT !.late_event = @ \/ watcher.s = "returned"]
    /\ UNCHANGED <<once, pc, ctx, idx, log_changes_only, triggered, desired,
                   _ser, _usb_watcher, hub_location, _channel_serials,
                   _channel_states, _channel_display, hub_up, exc,
                   stop_requested, stop_at_wait, recovering, lost_cause,
                   recovered_from, last_push, probed, observed, last_occ,
                   wrote, tick_attached, exit_info, open_handles, signals,
                   call>>
    /\ UNCHANGED monitor

\* Line 163 of stop(), called after start() returned: rl = self._run_loop
StopRead ==
    /\ watcher.s = "idle"
    /\ watcher._thread # None
    /\ watcher' = [watcher EXCEPT !.rl = watcher._run_loop, !.s = "clear"]
    /\ UNCHANGED <<program, call>>
    /\ UNCHANGED monitor

\* Line 164 of stop(): self._run_loop = None
StopClear ==
    /\ watcher.s = "clear"
    /\ watcher' = [watcher EXCEPT !._run_loop = None, !.s = "stop_loop"]
    /\ UNCHANGED <<program, call>>
    /\ UNCHANGED monitor

\* Lines 165-166 of stop(): if rl: CFRunLoopStop(rl). A run loop that is
\* running in a mode takes the stop request; one that is not may keep it
\* for its next run or drop it.
StopLoop ==
    /\ watcher.s = "stop_loop"
    /\ \E kept \in BOOLEAN :
          watcher' = [watcher EXCEPT
                        !.stop_flag =
                           IF watcher.rl = None THEN @
                           ELSE IF watcher.t = "run_in_mode" THEN TRUE
                           ELSE kept,
                        !.s = "join"]
    /\ UNCHANGED <<program, call>>
    /\ UNCHANGED monitor

\* Lines 167-169 of stop(): self._thread.join(timeout=2); self._thread =
\* None. join returns when the thread has ended, or after its 2 seconds
\* when the thread sits in CFRunLoopRunInMode with no stop request.
StopJoin ==
    /\ watcher.s = "join"
    /\ \/ watcher.t = "exited"
       \/ watcher.t = "run_in_mode" /\ ~watcher.stop_flag
    /\ watcher' = [watcher EXCEPT !._thread = None, !.s = "destroy"]
    /\ UNCHANGED <<program, call>>
    /\ UNCHANGED monitor

\* Lines 170-172 of stop(): if self._notify_port: IONotificationPortDestroy
StopDestroy ==
    /\ watcher.s = "destroy"
    /\ watcher' = [watcher EXCEPT
                     !.port = IF watcher._notify_port # None THEN "destroyed" ELSE @,
                     !.destroyed_in_use =
                        @ \/ (watcher._notify_port # None /\ ThreadAlive),
                     !._notify_port = None,
                     !.s = "returned"]
    /\ UNCHANGED <<program, call>>
    /\ UNCHANGED monitor

_run ==
    \/ RunCreatePort
    \/ RunGetLoop
    \/ RunSubscribe
    \/ RunTest
    \/ RunEnter
    \/ RunReturn
    \/ OnEvent

stop ==
    \/ StopRead
    \/ StopClear
    \/ StopLoop
    \/ StopJoin
    \/ StopDestroy

WatcherNext == start \/ _run \/ stop

WatcherSpec == WatcherInit /\ [][WatcherNext]_vars

(***************************************************************************)
(* SerialMonitor of serial_monitor.py in interactive mode: the main thread *)
(* (run, _run_interactive, _handle_key) and the reader thread (_read_loop, *)
(* _reconnect), one step per statement that reads or writes self._ser or   *)
(* self.running or calls into pyserial.                                    *)
(***************************************************************************)
MonitorInit ==
    /\ AtRest
    /\ call = NoCall
    /\ watcher = WatcherIdle
    /\ monitor = MonitorIdle

\* Line 139 of _open, the call: serial.Serial(...) returns a new open handle
\* to thread t.
serial_Serial(m, t) ==
    [m EXCEPT !.open = @ \cup {m.next}, !.h[t] = m.next, !.next = @ + 1]

\* An assignment to self._ser drops the reference to the handle it held: a
\* handle that is still open then is closed by its finalizer, or stays open.
Dropped(m, finalized) ==
    IF m._ser \in m.open /\ finalized THEN m.open \ {m._ser} ELSE m.open

\* Line 139 of _open, the assignment: self._ser = the handle thread t holds.
_open_store(m, t, finalized) ==
    [m EXCEPT !._ser = m.h[t], !.h[t] = NoHandle,
              !.open = Dropped(m, finalized),
              !.overwritten = @ \/ m._ser \in m.open]

\* Lines 150-154 of _close in thread t: if self._ser: self._ser.close()
_close_call(m, t) ==
    [m EXCEPT !.open = @ \ {m._ser}, !.c[t] = (m._ser # NoHandle)]

\* Line 155 of _close in thread t: self._ser = None, inside the if.
_close_clear(m, t, finalized) ==
    IF m.c[t]
    THEN [m EXCEPT !._ser = NoHandle, !.c[t] = FALSE,
                   !.open = Dropped(m, finalized),
                   !.overwritten = @ \/ m._ser \in m.open]
    ELSE m

\* _open() in thread t at step at: serial.Serial returns a handle (on to
\* stored), or raises 20 times and sys.exit(1) ends the thread's work (on to
\* gave_up).
OpenCall(t, at, stored, gave_up) ==
    /\ monitor[t] = at
    /\ \/ /\ monitor.next <= MaxHandles
          /\ monitor' = [serial_Serial(monitor, t) EXCEPT ![t] = stored]
       \/ monitor' = [monitor EXCEPT ![t] = gave_up]
    /\ UNCHANGED <<program, call, watcher>>

\* The assignment of _open() in thread t at step at.
OpenStore(t, at, to) ==
    /\ monitor[t] = at
    /\ \E finalized \in BOOLEAN :
          monitor' = [_open_store(monitor, t, finalized) EXCEPT ![t] = to]
    /\ UNCHANGED <<program, call, watcher>>

\* The close of _close() in thread t at step at.
CloseCall(t, at, to) ==
    /\ monitor[t] = at
    /\ monitor' = [_close_call(monitor, t) EXCEPT ![t] = to]
    /\ UNCHANGED <<program, call, watcher>>

\* The assignment of _close() in thread t at step at.
CloseClear(t, at, to) ==
    /\ monitor[t] = at
    /\ \E finalized \in BOOLEAN :
          monitor' = [_close_clear(monitor, t, finalized) EXCEPT ![t] = to]
    /\ UNCHANGED <<program, call, watcher>>

\* Line 218 of run(): self._open(), the call of serial.Serial.
MonitorOpen == OpenCall("k", "run_open", "run_store", "done")

\* Line 218 of run(): self._open(), the assignment.
MonitorStore == OpenStore("k", "run_store", "start_reader")

\* Lines 219-238 of run(): self.running = True, the handlers, reader.start()
MonitorStartReader ==
    /\ monitor.k = "start_reader"
    /\ monitor' = [monitor EXCEPT !.running = TRUE, !.r = "test", !.k = "read_key"]
    /\ UNCHANGED <<program, call, watcher>>

\* Lines 292-295 and 191-211: while self.running: ch = os.read(fd, 1) and
\* the branch of _handle_key(ch), ch being EOF, Ctrl-C, Ctrl-R, Ctrl-B,
\* Ctrl-T or any other key.
ReadKey ==
    /\ monitor.k = "read_key"
    /\ IF ~monitor.running
       THEN monitor' = [monitor EXCEPT !.k = "finally"]
       ELSE \E ch \in {"", "^C", "^R", "^B", "^T", "x"} :
               monitor' =
                  CASE ch \in {"", "^C"} -> [monitor EXCEPT !.k = "finally"]
                    [] ch \in {"^R", "^B"} -> [monitor EXCEPT !.k = "key_close"]
                    [] ch = "^T" -> [monitor EXCEPT !.timestamps = ~@]
                    [] OTHER -> monitor
    /\ UNCHANGED <<program, call, watcher>>

\* Lines 194 and 198 of _handle_key: self._close()
KeyClose == CloseCall("k", "key_close", "key_clear")

KeyClear == CloseClear("k", "key_clear", "key_reset")

\* Lines 195 and 199 of _handle_key: reset_via_baud_touch(self.port) or
\* enter_bootloader_rts_dtr(self.port), which open and close the port with a
\* handle of their own.
KeyReset ==
    /\ monitor.k = "key_reset"
    /\ monitor' = [monitor EXCEPT !.k = "key_open"]
    /\ UNCHANGED <<program, call, watcher>>

\* Lines 196 and 200 of _handle_key: self._open()
KeyOpen == OpenCall("k", "key_open", "key_store", "finally")

KeyStore == OpenStore("k", "key_store", "read_key")

\* Lines 296-297 of _run_interactive: finally: self.running = False
MonitorFinally ==
    /\ monitor.k = "finally"
    /\ monitor' = [monitor EXCEPT !.running = FALSE, !.k = "final_close"]
    /\ UNCHANGED <<program, call, watcher>>

\* Line 299 of _run_interactive: self._close(); the process ends after it.
FinalClose == CloseCall("k", "final_close", "final_clear")

FinalClear == CloseClear("k", "final_clear", "done")

\* SerialMonitor.stop(), the SIGTERM handler line 224 installed.
MonitorStop ==
    /\ monitor.k \notin {"run_open", "run_store", "start_reader", "done"}
    /\ monitor.running
    /\ monitor' = [monitor EXCEPT !.running = FALSE]
    /\ UNCHANGED <<program, call, watcher>>

\* Line 160 of _read_loop: while self.running. The reader is a daemon
\* thread: it takes steps while the main thread has not returned.
ReadTest ==
    /\ monitor.k # "done"
    /\ monitor.r = "test"
    /\ monitor' = [monitor EXCEPT !.r = IF monitor.running THEN "read" ELSE "exit"]
    /\ UNCHANGED <<program, call, watcher>>

\* Lines 161-171 of _read_loop: self._ser.read(...) raises when self._ser is
\* None or closed, and may raise when the device is gone.
ReadData ==
    /\ monitor.k # "done"
    /\ monitor.r = "read"
    /\ \E device_error \in BOOLEAN :
          monitor' = [monitor EXCEPT
                        !.r = IF monitor._ser \notin monitor.open \/ device_error
                              THEN "except" ELSE "test"]
    /\ UNCHANGED <<program, call, watcher>>

\* Lines 163-166 of _read_loop: except Exception: if not self.running: break
ReadExcept ==
    /\ monitor.k # "done"
    /\ monitor.r = "except"
    /\ monitor' = [monitor EXCEPT !.r = IF monitor.running THEN "rc_close" ELSE "exit"]
    /\ UNCHANGED <<program, call, watcher>>

\* Line 185 of _reconnect: self._close()
ReconnectClose == monitor.k # "done" /\ CloseCall("r", "rc_close", "rc_clear")

ReconnectClear == monitor.k # "done" /\ CloseClear("r", "rc_clear", "rc_sleep")

\* Line 186 of _reconnect: time.sleep(1)
ReconnectSleep ==
    /\ monitor.k # "done"
    /\ monitor.r = "rc_sleep"
    /\ monitor' = [monitor EXCEPT !.r = "rc_open"]
    /\ UNCHANGED <<program, call, watcher>>

\* Line 187 of _reconnect: self._open()
ReconnectOpen == monitor.k # "done" /\ OpenCall("r", "rc_open", "rc_store", "exit")

ReconnectStore == monitor.k # "done" /\ OpenStore("r", "rc_store", "test")

MonitorNext ==
    \/ MonitorOpen
    \/ MonitorStore
    \/ MonitorStartReader
    \/ ReadKey
    \/ KeyClose
    \/ KeyClear
    \/ KeyReset
    \/ KeyOpen
    \/ KeyStore
    \/ MonitorFinally
    \/ FinalClose
    \/ FinalClear
    \/ MonitorStop
    \/ ReadTest
    \/ ReadData
    \/ ReadExcept
    \/ ReconnectClose
    \/ ReconnectClear
    \/ ReconnectSleep
    \/ ReconnectOpen
    \/ ReconnectStore

MonitorSpec == MonitorInit /\ [][MonitorNext]_vars

(***************************************************************************)
(* The claims.                                                             *)
(***************************************************************************)
\* The loop is starting a normal scan-and-push cycle (lines 442-449).
NormalCycleStart == pc \in {"settle", "drain"} \/ (pc = "scan" /\ ctx = "cycle")

\* C1: in daemon mode, from the moment the connection is marked lost until a
\* _reconnect succeeds, no tick starts a normal scan-and-push cycle: every
\* tick, also one that follows a failed _reconnect, attempts _reconnect.
C1_RediscoveryUntilSuccess == recovering => ~NormalCycleStart

\* C2: after an OSError in a push the next tick does no normal refresh but a
\* rediscovery; when it succeeds the cached occupants, modes and the push
\* cache are empty and a full refresh (log_changes_only = False) follows,
\* whose scan probes exactly the occupied channels and which pushes CH1, CH2
\* and CH3.
C2_RecoveryLaw ==
    /\ _hub_lost => ~NormalCycleStart
    /\ (recovered_from = "push" /\ pc = "scan" /\ ctx = "reconnect") =>
          /\ _channel_serials = Empty
          /\ _channel_states = Empty
          /\ _channel_display = NoDisplays
          /\ ~log_changes_only
    /\ (recovered_from = "push" /\ pc = "push" /\ ctx = "reconnect" /\ idx = 1) =>
          probed = {ch \in Channel : _channel_serials[ch] # None}
    /\ (recovered_from = "push" /\ ctx = "reconnect" /\ pc \in {"loop", "finally"}) =>
          wrote = Channel

\* C3: with the hub absent or lost at some point, if from some point on hub
\* discovery and serial open always succeed and no stop is requested, the
\* daemon again and again holds an open connection and has written a set
\* command for all three channels. (Stated for the runs in which no
\* exception escapes a push, so that it fails by the loop alone.)
C3_RecoversUnattended ==
    (~once /\ <>[]hub_up /\ []~stop_requested /\ []~exc)
        => []<>(_ser # None /\ wrote = Channel)

\* C4: every tick of the running daemon that ends with the hub attached all
\* through it and no stop requested has written a set command for each of
\* CH1, CH2 and CH3.
C4_KeepaliveEveryTick ==
    (pc = "loop" /\ ctx \in {"cycle", "reconnect"} /\ ~once /\ ~stop_requested
     /\ tick_attached) => wrote = Channel

\* C5: when run() has ended, on any path taken after the hub open attempt,
\* the hub connection is closed and no watcher is left running.
C5_ExitReleases == pc = "done" => (_ser = None /\ _usb_watcher = None)

\* C5's case: run() ended on a stop request with the connection open and the
\* watcher started.
C5_Witness ==
    /\ pc = "done"
    /\ exit_info.path = "stop"
    /\ exit_info.had_ser
    /\ exit_info.had_watcher

\* C6: once a wait has returned with a stop request made (after the handlers
\* were installed), the loop starts no refresh cycle and no reconnect: it only
\* clears the flag, tests running and leaves.
C6_StopEndsLoop == stop_at_wait => pc \in {"clear", "check", "finally", "done"}

\* C7: a push changes _hub_lost only when the serial write, flush or read
\* raised OSError; a reply that does not parse, a status other than ok and an
\* empty line leave it as it was.
C7_OnlyIOErrorMarksLost ==
    last_push.channel # None =>
        (last_push.lost_after # last_push.lost_before
            => (last_push.reply.io = "oserror" /\ last_push.lost_after))

\* C7's case: pushes whose reply did not parse, and the connection is not
\* marked lost.
C7_Witness ==
    /\ last_push.channel # None
    /\ last_push.reply.io = "ok"
    /\ last_push.reply.line = "garbage"
    /\ ~last_push.lost_after
    /\ ~_hub_lost

\* The reply line parses as an object whose status is "ok".
OkReply(reply) ==
    /\ reply.io = "ok"
    /\ json_loads(reply.line).t = "dict"
    /\ json_loads(reply.line).status = "ok"

\* C8: _push_channel returns a value for every outcome, and a true one if
\* and only if the reply parses as an object whose status is "ok".
C8_PushSuccessIffOk ==
    last_push.channel # None =>
        /\ ~last_push.raised
        /\ last_push.ok <=> (last_push.wrote /\ OkReply(last_push.reply))

\* C9: in the daemon, after any push outcome the cycle goes on: the next
\* channel is pushed, or the refresh has returned to the loop; run() is not
\* left by an exception.
C9_NoPushOutcomeFatal ==
    (~once /\ last_push.channel # None) => (pc \in {"push", "loop"} /\ ~exc)

\* The cache before a scan is what the previous scan recorded, unless
\* _reconnect cleared it since.
CacheIsLastScanOrCleared == _channel_serials = last_occ \/ _channel_serials = Empty

\* C10, as claimed: a scan probes a channel if and only if it is occupied
\* and its occupant differs from the one the previous scan recorded, and
\* keeps the cached mode of an unchanged occupant.
C10_ProbeIffChangedSinceLastScan ==
    [][(pc = "scan" /\ pc' = "push") =>
          \A ch \in Channel :
             /\ (ch \in probed') <=>
                   (_channel_serials'[ch] # None /\ _channel_serials'[ch] # last_occ[ch])
             /\ (_channel_serials'[ch] # None /\ _channel_serials'[ch] = last_occ[ch])
                   => _channel_states'[ch] = _channel_states[ch]]_vars

\* C10, amended: a scan probes a channel if and only if it is occupied and
\* its occupant differs from the cached occupant, which is the one the
\* previous scan recorded unless _reconnect cleared the cache since (then
\* every occupied channel is probed); the cached mode of an occupant equal to
\* the cached one is kept.
C10_ProbeIffDiffersFromCache ==
    [][(pc = "scan" /\ pc' = "push") =>
          /\ CacheIsLastScanOrCleared
          /\ \A ch \in Channel :
                /\ (ch \in probed') <=>
                      (_channel_serials'[ch] # None
                       /\ _channel_serials'[ch] # _channel_serials[ch])
                /\ (_channel_serials'[ch] # None
                    /\ _channel_serials'[ch] = _channel_serials[ch])
                      => _channel_states'[ch] = _channel_states[ch]]_vars

\* C10's case: a scan has left an occupant in place without probing it, its
\* cached mode bootloader kept, and has probed another channel.
C10_Witness ==
    /\ pc = "push"
    /\ idx = 1
    /\ \E ch \in Channel :
          _channel_serials[ch] # None /\ ch \notin probed
          /\ _channel_states[ch] = "bootloader"
    /\ probed # {}

\* The step of refresh that calls _scan_channels.
ScanStep == pc = "scan" /\ pc' = "push"

\* C11: a second call of _scan_channels with the observations of the first
\* (same comports(), registry and hub location) yields the same three frames,
\* probes no channel and leaves the cached occupants and modes as the first
\* call left them.
C11_ScanIdempotent ==
    [][ScanStep =>
          LET second == ScanObserved(observed', _channel_serials', _channel_states')
          IN  \A ch \in Channel :
                 /\ second[ch].display = desired'[ch]
                 /\ ~second[ch].probed
                 /\ second[ch].serial = _channel_serials'[ch]
                 /\ second[ch].state = _channel_states'[ch]]_vars

\* C11's case: the first call probed an occupant and found it in the
\* bootloader; the second call on the same observations does not probe it.
C11_Witness ==
    /\ pc = "push"
    /\ idx = 1
    /\ \E ch \in Channel :
          /\ observed[ch] # NoPort
          /\ ch \in probed
          /\ _channel_states[ch] = "bootloader"
          /\ ~ScanObserved(observed, _channel_serials, _channel_states)[ch].probed
          /\ ScanObserved(observed, _channel_serials, _channel_states)[ch].display
                = desired[ch]

\* C12: when a scan finds registered device b on a channel whose cached
\* occupant is another registered device a of type esp32, the scan probes b
\* (one _probe_state call for the channel) and the mode cached and shown for
\* b is the result of that probe: for a generic b never bootloader, whatever
\* mode was cached for a.
C12_ReplacedOccupantProbed ==
    [][ScanStep =>
          \A ch \in Channel : \A a, b \in Registered :
             (/\ a # b
              /\ devices[a].type = "esp32"
              /\ _channel_serials[ch] = a
              /\ observed'[ch] # NoPort
              /\ observed'[ch].serial_number = b)
             => /\ ch \in probed'
                /\ _channel_serials'[ch] = b
                /\ _channel_states'[ch] = _probe_state(observed'[ch], devices[b].type)
                /\ devices[b].type # "esp32"
                      => _channel_states'[ch] \in {"running", "sleeping"}
                /\ desired'[ch]
                      = _build_display(devices[b].hub_name, _channel_states'[ch])]_vars

\* C12's case: the frame last pushed for CH1 is the one of A in the
\* bootloader, and the scan has now found B there, probed it and shows it
\* running.
C12_Witness ==
    /\ pc = "push"
    /\ idx = 1
    /\ _channel_display["CH1"] = _build_display(devices["A"].hub_name, "bootloader")
    /\ observed["CH1"] # NoPort
    /\ observed["CH1"].serial_number = "B"
    /\ "CH1" \in probed
    /\ desired["CH1"] = _build_display(devices["B"].hub_name, "running")

\* C13: after every scan, a channel occupied by a device whose path is not
\* available has the mode sleeping and a frame whose status line reads
\* "sleeping" in CYAN.
C13_UnavailablePathSleeping ==
    \A ch \in Channel :
       (pc = "push" /\ observed[ch] # NoPort /\ observed[ch].device = None)
       => /\ _channel_states[ch] = "sleeping"
          /\ "T2" \in DOMAIN desired[ch].Dev1_name
          /\ desired[ch].Dev1_name["T2"] = [txt |-> <<"sleeping">>, color |-> "CYAN"]

\* C14: a scan returns a frame for each of CH1, CH2, CH3; the frame of a
\* channel it found unoccupied is the placeholder ("---", DARKGREY, no
\* status line) and the channel then has no cached occupant and no cached
\* mode; at all times a channel with a cached mode has a cached occupant.
C14_FrameForEveryChannel ==
    /\ \A ch \in Channel : _channel_states[ch] # None => _channel_serials[ch] # None
    /\ pc = "push" =>
          /\ DOMAIN desired = Channel
          /\ \A ch \in Channel :
                observed[ch] = NoPort
                => /\ DOMAIN desired[ch].Dev1_name = {"T1"}
                   /\ desired[ch].Dev1_name["T1"].txt = <<"-", "-", "-">>
                   /\ desired[ch].Dev1_name["T1"].color = "DARKGREY"
                   /\ desired[ch].numDev = "10"
                   /\ desired[ch].usbType = "2"
                   /\ _channel_serials[ch] = None
                   /\ _channel_states[ch] = None

\* C14's case: the device whose bootloader frame was last pushed for CH1 has
\* left; the scan renders the placeholder for CH1 with nothing cached, while
\* CH2 is occupied.
C14_Witness ==
    /\ pc = "push"
    /\ idx = 1
    /\ _channel_display["CH1"] = _build_display(devices["A"].hub_name, "bootloader")
    /\ observed["CH1"] = NoPort
    /\ desired["CH1"] = _empty_display
    /\ _channel_states["CH1"] = None
    /\ observed["CH2"] # NoPort

\* C15: port_to_channel returns CHn exactly when both locations are present,
\* device_location is hub_location, a "." and more, and the first dotted
\* segment of that rest is an integer n in 1..3; otherwise it returns None.
\* With hub "20-3.3": None for an absent location, for "20-3.31.1",
\* "20-3.312" and "20-3.4.1", for the hub itself, for "20-3.3.x" and for the
\* ports 0 and 4; CH1 for "20-3.3.1" and CH3 for "20-3.3.3.4.1".
C15_PortToChannel ==
    (call.fn = "port_to_channel" /\ call.done) =>
       LET d == call.device_location
           h == call.hub_location
           extends == d # <<>> /\ h # <<>> /\ StartsWith(d, h \o <<".">>)
           n == IF extends
                THEN ParseInt(FirstSegment(SubSeq(d, Len(h) + 2, Len(d))))
                ELSE [ok |-> FALSE, val |-> 0]
       IN  /\ call.result \in Channel \cup {None}
           /\ \A k \in 1..3 :
                 call.result = CHANNELS[k] <=> (extends /\ n.ok /\ n.val = k)
           /\ (h = HubLocation
               /\ d \in {<<>>, HubLocation, HubLocation \o <<"1", ".", "1">>,
                         HubLocation \o <<"1", "2">>,
                         <<"2", "0", "-", "3", ".", "4", ".", "1">>,
                         Loc("x"), Loc("0"), Loc("4")})
                 => call.result = None
           /\ h = <<>> => call.result = None
           /\ (h = HubLocation /\ d = Loc("1")) => call.result = "CH1"
           /\ (h = HubLocation /\ d = HubLocation \o <<".", "3", ".", "4", ".", "1">>)
                 => call.result = "CH3"

\* C15's case: the call with hub "20-3.3" and device "20-3.3.3.4.1" has
\* returned CH3.
C15_Witness ==
    /\ call.fn = "port_to_channel"
    /\ call.done
    /\ call.hub_location = HubLocation
    /\ call.device_location = HubLocation \o <<".", "3", ".", "4", ".", "1">>
    /\ call.result = "CH3"

\* C16: the clear that ends the settle delay leaves the flag clear, however
\* many callbacks ran since the loop entered its wait, so they start no cycle
\* beyond the one that begins now; a tick makes one call of _scan_channels
\* (none was made before in the tick, nothing written); the flag is a
\* boolean.
C16_SignalsCoalesce ==
    /\ [][(pc = "drain" /\ pc' = "scan") => ~_usb_event']_vars
    /\ [][ScanStep => (observed = NoObserved /\ wrote = {})]_vars
    /\ [](_usb_event \in BOOLEAN)

\* C16's case: several callbacks ran between the wait and the end of the
\* settle delay, and the one cycle they trigger starts with the flag clear.
C16_Witness ==
    /\ pc = "scan"
    /\ ctx = "cycle"
    /\ triggered
    /\ signals = "many"
    /\ ~_usb_event

\* C17: when a normal cycle starts its scan after the loop has cleared a flag
\* that a watcher callback had set in this tick (callbacks ran since the wait
\* began and the flag is clear), the tick has taken the triggered branch, so
\* the settle delay came between the clear and the scan.
C17_SettleBeforeScan ==
    (pc = "scan" /\ ctx = "cycle" /\ signals # "none" /\ ~_usb_event) => triggered

\* The fields that hold channel state and the hub connection, and the record
\* of the serial writes.
ChannelAndConnection ==
    <<_channel_serials, _channel_states, _channel_display, _ser, _hub_lost,
      wrote, last_push>>

\* C18: a step in which the watcher callback runs (it sets the flag, or is
\* counted) leaves the cached occupants and modes, the push cache, the
\* connection handle, _hub_lost and running unchanged and writes nothing to
\* the hub; every step that changes channel state or the connection, or
\* writes to the hub, is a step of the loop thread (it moves pc or idx).
C18_CallbackOnlySetsFlag ==
    /\ [][((~_usb_event /\ _usb_event') \/ (signals' # signals /\ signals' # "none"))
            => /\ UNCHANGED ChannelAndConnection
               /\ UNCHANGED <<running, pc, idx, desired>>]_vars
    /\ [][ChannelAndConnection' # ChannelAndConnection
            => (pc' # pc \/ idx' # idx)]_vars

\* C18's case: callbacks have run during this tick while the loop was
\* between its wait and its scan; the connection and the caches are as the
\* loop left them.
C18_Witness ==
    /\ pc = "settle"
    /\ signals = "many"
    /\ _usb_event
    /\ _ser # None
    /\ ~_hub_lost
    /\ running
    /\ _channel_serials # Empty

\* C19: in every state of run() the number of open serial handles to the hub
\* is 0 or 1, and it is 0 when self._ser holds none: no handle is left open
\* behind a new one or behind a reset field.
C19_AtMostOneConnection ==
    /\ open_handles \in {0, 1}
    /\ _ser = None => open_handles = 0

\* C19's case: the connection was lost in a push, a _reconnect has closed
\* the old handle and opened a new one; one handle is open.
C19_Witness ==
    /\ recovered_from = "push"
    /\ ctx = "reconnect"
    /\ pc = "push"
    /\ _ser # None
    /\ open_handles = 1

\* The colour of a mode, as C20 states it.
ModeColour(mode) ==
    CASE mode = "running" -> "GREEN"
      [] mode = "bootloader" -> "ORANGE"
      [] mode = "sleeping" -> "CYAN"

\* C20: for the modes running, bootloader and sleeping, the frame
\* _build_display returns has a name line T1 holding the label cut to its
\* first 14 characters (whole when it has at most 14) in the colour of the
\* mode, a status line T2 holding the mode text in the same colour exactly
\* when the mode is not running, no other line, numDev "10" and usbType "2";
\* so the frame is determined by (label, mode).
C20_FrameOfLabelAndMode ==
    (call.fn = "_build_display" /\ call.done
     /\ call.state \in {"running", "bootloader", "sleeping"}) =>
       LET lines == call.result.Dev1_name
           label == call.hub_name
       IN  /\ DOMAIN call.result = {"Dev1_name", "numDev", "usbType"}
           /\ call.result.numDev = "10"
           /\ call.result.usbType = "2"
           /\ DOMAIN lines = (IF call.state = "running" THEN {"T1"} ELSE {"T1", "T2"})
           /\ Len(lines["T1"].txt) <= 14
           /\ lines["T1"].txt = (IF Len(label) <= 14 THEN label ELSE SubSeq(label, 1, 14))
           /\ lines["T1"].color = ModeColour(call.state)
           /\ call.state # "running"
                 => lines["T2"] = [txt |-> <<call.state>>,
                                   color |-> ModeColour(call.state)]

\* C20's case: the frame of a label of 16 characters in mode bootloader has
\* been built: 14 characters in ORANGE and a status line.
C20_Witness ==
    /\ call.fn = "_build_display"
    /\ call.done
    /\ call.state = "bootloader"
    /\ Len(call.hub_name) = 16
    /\ Len(call.result.Dev1_name["T1"].txt) = 14
    /\ call.result.Dev1_name["T1"].color = "ORANGE"
    /\ "T2" \in DOMAIN call.result.Dev1_name

\* The scan of a channel has found an occupant other than the cached one.
Arrival ==
    call.fn = "ScanChannel" /\ call.done /\ call.p.serial_number # call.prev_sn

\* The response makes probe_bootloader return True.
BootReply(resp) ==
    resp.exc = None /\ Len(resp.bytes) > 4 /\ \E i \in 1..Len(resp.bytes) : resp.bytes[i] = 192

\* C21, as claimed: for an arriving occupant the bootloader probe is run only
\* if its type is esp32 and the mode is bootloader exactly when the probe
\* returns true; an arriving occupant of another type is not probed and has
\* the mode running.
C21_ArrivalModeByKind ==
    Arrival =>
       LET type == devices[call.p.serial_number].type
       IN  /\ call.bootloader_probed => type = "esp32"
           /\ (call.result.state = "bootloader")
                 <=> (call.bootloader_probed /\ BootReply(call.p.resp))
           /\ type # "esp32"
                 => (~call.bootloader_probed /\ call.result.state = "running")

\* C21, amended: for an arriving occupant the bootloader probe is run exactly
\* when its type is esp32 and its device path is available; the mode is
\* sleeping when the path is not available (whatever the type), bootloader
\* when the probe is run and returns true, and running otherwise: for an
\* occupant of another type with a path, and for an esp32 whose probe returns
\* false.
C21_ArrivalModeByKindAndPath ==
    Arrival =>
       LET type == devices[call.p.serial_number].type
           path == call.p.device # None
       IN  /\ call.result.probed
           /\ call.bootloader_probed <=> (type = "esp32" /\ path)
           /\ ~path => call.result.state = "sleeping"
           /\ (call.result.state = "bootloader")
                 <=> (call.bootloader_probed /\ BootReply(call.p.resp))
           /\ (path /\ type # "esp32") => call.result.state = "running"
           /\ (path /\ type = "esp32" /\ ~BootReply(call.p.resp))
                 => call.result.state = "running"

\* C21's case: generic B, with a device path and a port that would answer
\* the SYNC frame, has replaced A on the channel: no bootloader probe, mode
\* running.
C21_Witness ==
    /\ Arrival
    /\ call.p.serial_number = "B"
    /\ call.prev_sn = "A"
    /\ call.p.device # None
    /\ call.p.resp = BootAnswer
    /\ ~call.bootloader_probed
    /\ call.result.state = "running"

\* The device p of a scan can occupy channel ch of the hub at h: it has a
\* serial number, the registry holds it and its location maps to ch.
Eligible(p, ch, h) ==
    /\ p.serial_number # None
    /\ p.serial_number \in Registered
    /\ port_to_channel(p.location, h) = ch

\* C22: the occupant of a channel is the last entry of the scan that is
\* registered, has a serial number and maps to the channel, and the channel
\* is unoccupied when the scan has no such entry: entries that are
\* unregistered, have no serial number or map to no channel change nothing,
\* wherever they stand.
C22_LastRegisteredWins ==
    (call.fn = "channel_devices" /\ call.done) =>
       \A ch \in Channel :
          LET at == {i \in 1..Len(call.scan) :
                       Eligible(call.scan[i], ch, call.hub_location)}
          IN  IF at = {}
              THEN call.result[ch] = NoPort
              ELSE call.result[ch]
                     = call.scan[CHOOSE i \in at : \A j \in at : j <= i]

\* C22's case: A and then B are found on CH1; B occupies it.
C22_Witness ==
    /\ call.fn = "channel_devices"
    /\ call.done
    /\ Len(call.scan) = 2
    /\ call.scan[1].serial_number = "A"
    /\ call.scan[1].location = Loc("1")
    /\ call.scan[2].serial_number = "B"
    /\ call.scan[2].location = Loc("1")
    /\ call.result["CH1"].serial_number = "B"

\* C23: status() leaves the cached occupants, modes and frames, the
\* connection handle and _hub_lost as they were and writes nothing to the
\* hub; for each channel it reports the last device of the live scan that
\* has a serial number and maps to the channel, whether or not the registry
\* holds it, flagged registered exactly when it does, and reports nothing
\* for a channel with no such device.
C23_StatusReadOnly ==
    [][(call.fn = "status" /\ ~call.done /\ call'.done) =>
          /\ UNCHANGED <<_channel_serials, _channel_states, _channel_display,
                         _ser, _hub_lost, wrote, last_push>>
          /\ \A ch \in Channel :
                LET at == {i \in 1..Len(call.scan) :
                             /\ call.scan[i].serial_number # None
                             /\ port_to_channel(call.scan[i].location,
                                                call.hub_location) = ch}
                IN  IF at = {}
                    THEN call'.result[ch] = NoPort
                    ELSE LET p == call.scan[CHOOSE i \in at : \A j \in at : j <= i]
                             r == call'.result[ch]
                         IN  /\ r # NoPort
                             /\ r.serial_number = p.serial_number
                             /\ r.device = p.device
                             /\ r.registered <=> (p.serial_number \in Registered)
                             /\ r.registered =>
                                   r.hub_name = devices[p.serial_number].hub_name
                             /\ ~r.registered =>
                                   /\ Len(r.hub_name) <= MAX_NAME_LEN
                                   /\ r.name = p.description]_vars

\* C23's case: an unregistered device listed after a registered one on CH1
\* is the occupant status() reports, marked unregistered.
C23_Witness ==
    /\ call.fn = "status"
    /\ call.done
    /\ Len(call.scan) = 2
    /\ call.scan[1].serial_number = "A"
    /\ call.scan[1].location = Loc("1")
    /\ call.scan[2].serial_number = "U"
    /\ call.result["CH1"].serial_number = "U"
    /\ ~call.result["CH1"].registered
    /\ _channel_serials = Empty
    /\ wrote = {}

\* C24: a one-shot run whose hub connection cannot be opened ends with
\* sys.exit and has scanned and pushed nothing; any other one-shot run does
\* one refresh that pushes every channel with logging on, never starts the
\* watcher, never enters the wait loop and ends with the connection closed.
C24_OneShot ==
    once =>
       /\ _usb_watcher = None
       /\ pc \in {"open", "install", "scan", "push", "finally", "done"}
       /\ pc \in {"scan", "push"} => (ctx = "once" /\ ~log_changes_only)
       /\ pc = "finally" => (~exc /\ wrote = Channel)
       /\ pc = "done" =>
             /\ _ser = None
             /\ exit_info.path \in {"sys.exit", "once"}
             /\ exit_info.path = "sys.exit" =>
                   (~exit_info.had_ser /\ _channel_display = NoDisplays)
             /\ exit_info.path = "once" => exit_info.had_ser

\* C25: within a refresh the pushes follow CHANNELS, one per channel, and
\* a refresh is never left before the push of CH3, whatever an earlier
\* push of the cycle returned.
C25_ThreePushesInOrder ==
    /\ (pc = "push" /\ idx > 1) => last_push.channel = CHANNELS[idx - 1]
    /\ (pc # "push" /\ last_push # NoPush) => last_push.channel = CHANNELS[3]

\* C26: the call of _scan_channels that finds a channel unoccupied leaves
\* no occupant and no mode cached for it, and the call that finds on a
\* channel a device that an earlier call had found gone from it probes the
\* device and caches the mode of that probe, not the mode cached before the
\* device left.
C26_ClearedWhenGone ==
    (call.fn = "_scan_channels" /\ call.n > 0) =>
       \A ch \in Channel :
          /\ observed[ch] = NoPort =>
                (_channel_serials[ch] = None /\ _channel_states[ch] = None)
          /\ call.returned[ch] # NoLeft =>
                /\ observed[ch] # NoPort
                /\ observed[ch].serial_number = call.returned[ch].sn
                /\ ch \in probed
                /\ _channel_states[ch]
                      = _probe_state(observed[ch],
                                     devices[observed[ch].serial_number].type)

\* C26's case: A was in bootloader mode on CH1 when it left; the call that
\* finds it on CH1 again probes it and caches running.
C26_Witness ==
    /\ call.fn = "_scan_channels"
    /\ call.returned["CH1"] = [sn |-> "A", state |-> "bootloader"]
    /\ "CH1" \in probed
    /\ _channel_serials["CH1"] = "A"
    /\ _channel_states["CH1"] = "running"

\* The response read is longer than 4 bytes and holds the byte 0xC0.
Qualifies(bytes) ==
    Len(bytes) > 4 /\ 192 \in {bytes[i] : i \in 1..Len(bytes)}

\* C27 as stated: probe_bootloader returns true exactly when the port was
\* opened, the frame written and a response read that is longer than 4
\* bytes and holds 0xC0.
C27_TrueIffQualifyingResponse ==
    (call.fn = "probe_bootloader" /\ call.done) =>
       (call.result <=> (/\ call.resp.exc \notin {"Serial", "write", "read"}
                         /\ Qualifies(call.resp.bytes)))

\* C27 amended: probe_bootloader returns true exactly when no call of the
\* try block raised, s.close() after the read included, and the response
\* read is longer than 4 bytes and holds 0xC0; it returns false otherwise.
C27_TrueIffQualifyingAndClosed ==
    (call.fn = "probe_bootloader" /\ call.done) =>
       /\ call.result \in BOOLEAN
       /\ call.result <=> (call.resp.exc = None /\ Qualifies(call.resp.bytes))

\* C27's case: a response of 5 bytes whose last byte is 0xC0 was read and
\* the port closed; the probe returned true.
C27_Witness ==
    /\ call.fn = "probe_bootloader"
    /\ call.done
    /\ call.resp = [exc |-> None, bytes |-> <<1, 2, 3, 4, 192>>]
    /\ call.result

\* The inverse substitution on the bytes between the two framing bytes:
\* DB DC gives C0, DB DD gives DB, any other byte is copied.
RECURSIVE slip_unescape(_)
slip_unescape(body) ==
    IF body = <<>> THEN <<>>
    ELSE IF Len(body) >= 2 /\ body[1] = 219 /\ body[2] = 220
    THEN <<192>> \o slip_unescape(SubSeq(body, 3, Len(body)))
    ELSE IF Len(body) >= 2 /\ body[1] = 219 /\ body[2] = 221
    THEN <<219>> \o slip_unescape(SubSeq(body, 3, Len(body)))
    ELSE <<body[1]>> \o slip_unescape(Tail(body))

slip_decode(frame) == slip_unescape(SubSeq(frame, 2, Len(frame) - 1))

\* The position in the frame of the first byte that stands for pkt[i].
FramePos(pkt, i) ==
    1 + i + Cardinality({j \in 1..(i - 1) : pkt[j] \in {192, 219}})

\* C28: the frame of a packet starts and ends with 0xC0 and has no 0xC0 in
\* between; each 0xC0 of the packet stands in it as DB DC, each 0xDB as
\* DB DD and every other byte as itself, in the order of the packet and
\* with nothing else in the frame; decoding the frame gives the packet; the
\* frame of the 44-byte SYNC packet is the packet between two 0xC0 bytes.
C28_FrameEncoding ==
    (call.fn = "slip_encode" /\ call.done) =>
       LET pkt == call.pkt
           frame == call.result
       IN  /\ Len(frame) = Len(pkt) + 2
                             + Cardinality({j \in 1..Len(pkt) : pkt[j] \in {192, 219}})
           /\ frame[1] = 192
           /\ frame[Len(frame)] = 192
           /\ \A k \in 2..(Len(frame) - 1) : frame[k] # 192
           /\ \A i \in 1..Len(pkt) :
                 LET k == FramePos(pkt, i)
                 IN  CASE pkt[i] = 192 -> frame[k] = 219 /\ frame[k + 1] = 220
                       [] pkt[i] = 219 -> frame[k] = 219 /\ frame[k + 1] = 221
                       [] OTHER -> frame[k] = pkt[i]
           /\ slip_decode(frame) = pkt
           /\ pkt = SyncPacket =>
                 (Len(pkt) = 44 /\ frame = <<192>> \o pkt \o <<192>>)

\* C28's case: a packet holding both reserved bytes has been encoded.
C28_Witness ==
    /\ call.fn = "slip_encode"
    /\ call.done
    /\ call.pkt = <<192, 219, 85>>
    /\ call.result = <<192, 219, 220, 219, 221, 85, 192>>

\* C29: once stop() has returned, the thread of _run() has ended or ends at
\* its next test of self._run_loop, on_event is not called any more, and
\* the notification port was not destroyed while the thread was alive.
C29_CleanStop ==
    watcher.s = "returned" =>
       /\ (watcher.t = "exited" \/ watcher._run_loop = None)
       /\ ~watcher.late_event
       /\ ~watcher.destroyed_in_use

\* C30: at every wait of the daemon loop the connection handle is open or
\* _hub_lost is true, and no normal scan-and-push cycle runs without a
\* connection handle.
C30_HandleOrLostAtWait ==
    /\ pc = "wait" => (_ser # None \/ _hub_lost)
    /\ (pc \in {"scan", "push"} /\ ctx = "cycle") => _ser # None

\* C31: a flag that is set while the loop scans, pushes, reconnects or is at
\* its loop test stays set through that step, and the wait that finds it
\* set returns True; and in a daemon that is neither stopped nor left by an
\* exception, whenever the flag is set a call of _scan_channels starts at
\* that moment or later.
C31_NoSignalLost ==
    /\ [][(pc \in {"scan", "push", "reconnect", "loop"} /\ _usb_event)
             => _usb_event']_vars
    /\ [][(pc = "wait" /\ pc' = "clear" /\ _usb_event) => triggered']_vars
    /\ (~once /\ []~stop_requested /\ []~exc) => (_usb_event ~> pc = "scan")

\* C31's case: no callback ran since the loop entered this wait, the flag
\* was set during the cycle before it, and the wait returned True.
C31_Witness ==
    /\ pc = "clear"
    /\ triggered
    /\ _usb_event
    /\ signals = "none"
    /\ _channel_display # NoDisplays

\* C32: at every moment at most one serial handle opened by the monitor is
\* open, and no assignment to self._ser replaces a handle that is open.
C32_AtMostOneHandle ==
    /\ Cardinality(monitor.open) <= 1
    /\ ~monitor.overwritten

=============================================================================
